---- MODULE Spec2Model ----
(***************************************************************************)
(* A model of tarantool/go-tupleconv: the Converter abstraction, the       *)
(* sequence combinator, the string-to-tarantool-type converters, the       *)
(* StringToTTConvFactory, GetConverterByType and the Mapper.               *)
(*                                                                         *)
(* A Go string is a sequence of one-character strings, so that stripping,  *)
(* folding, splitting and parsing are computed character by character.     *)
(* A value of type `any` is a record with a field `kind`; an error is a    *)
(* record, NoErr standing for Go's nil error.                              *)
(***************************************************************************)
EXTENDS Integers, Sequences, FiniteSets, TLC

VARIABLES
    factory,    \* the TTConvFactory in use
    typeName,   \* the TypeName last given to GetConverterByType
    got,        \* what the last GetConverterByType call returned
    isNullable, \* whether MakeNullableConverter has wrapped the converter
    converter,  \* the Converter in use
    input,      \* the argument of the last Convert call
    out,        \* what the last Convert call returned
    mpr,        \* the Mapper in use
    tpl,        \* the argument of the last Map call
    mapped,     \* what the last Map call returned
    spaceFmt,   \* the argument of the last MakeTypeToTTConverters call
    made,       \* what the last MakeTypeToTTConverters call returned
    field,      \* the position of the converter of `made` last used, from 1
    given,      \* the value last given to a to-string converter
    op,         \* the name of the last operation
    list,       \* the caller's slice given to MakeMapper or MakeSequenceConverter
    original,   \* the elements that slice had when it was given
    calls,      \* the calls of Map in progress, one per concurrent caller
    withCall    \* the last With* call whose result was kept beside its receiver

schemaVars == <<spaceFmt, made, field>>

callerVars == <<list, original, calls, withCall>>

vars == <<factory, typeName, got, isNullable, converter, input, out, mpr, tpl,
          mapped, schemaVars, given, op, callerVars>>

----------------------------------------------------------------------------
(* Strings *)

Chars(s) == [i \in 1..Len(s) |-> SubSeq(s, i, i)]

DigitChars == {"0", "1", "2", "3", "4", "5", "6", "7", "8", "9"}

DigitVal(c) ==
    CASE c = "0" -> 0 [] c = "1" -> 1 [] c = "2" -> 2 [] c = "3" -> 3
      [] c = "4" -> 4 [] c = "5" -> 5 [] c = "6" -> 6 [] c = "7" -> 7
      [] c = "8" -> 8 [] c = "9" -> 9

IsDigits(s) == \A i \in 1..Len(s) : s[i] \in DigitChars

\* strings.ToLower on the letters the parsers look at
Lower(c) ==
    CASE c = "A" -> "a" [] c = "B" -> "b" [] c = "C" -> "c" [] c = "D" -> "d"
      [] c = "E" -> "e" [] c = "F" -> "f" [] c = "I" -> "i" [] c = "N" -> "n"
      [] c = "R" -> "r" [] c = "T" -> "t" [] c = "U" -> "u" [] c = "Y" -> "y"
      [] OTHER -> c

LowerStr(s) == [i \in 1..Len(s) |-> Lower(s[i])]

\* the index of the first occurrence of a character of set cs in s, or 0
RECURSIVE IndexAnyFrom(_, _, _)
IndexAnyFrom(s, cs, i) ==
    IF i > Len(s) THEN 0
    ELSE IF s[i] \in cs THEN i
    ELSE IndexAnyFrom(s, cs, i + 1)

IndexAny(s, cs) == IndexAnyFrom(s, cs, 1)

\* strings.ReplaceAll(s, old, new) for a one-character old
RECURSIVE ReplaceAll(_, _, _)
ReplaceAll(s, old, new) ==
    IF s = <<>> THEN <<>>
    ELSE (IF Head(s) = old THEN new ELSE <<Head(s)>>)
         \o ReplaceAll(Tail(s), old, new)

\* strings.Split(s, sep) for a one-character sep: always at least one part
RECURSIVE Split(_, _)
Split(s, sep) ==
    LET i == IndexAny(s, {sep})
    IN  IF i = 0 THEN <<s>>
        ELSE <<SubSeq(s, 1, i - 1)>> \o Split(SubSeq(s, i + 1, Len(s)), sep)

\* a decimal digit string without its leading zeros ("0" for zero)
RECURSIVE StripZeros(_)
StripZeros(d) ==
    IF Len(d) > 1 /\ Head(d) = "0" THEN StripZeros(Tail(d)) ELSE d

\* a <= b for digit strings of the same length
RECURSIVE LexLE(_, _)
LexLE(a, b) ==
    IF a = <<>> THEN TRUE
    ELSE IF Head(a) # Head(b) THEN DigitVal(Head(a)) < DigitVal(Head(b))
    ELSE LexLE(Tail(a), Tail(b))

\* a <= b for digit strings without leading zeros: unbounded magnitudes
DigitsLE(a, b) ==
    \/ Len(a) < Len(b)
    \/ Len(a) = Len(b) /\ LexLE(a, b)

\* the number a digit string denotes, saturating at cap
RECURSIVE DigitsToNat(_, _, _)
DigitsToNat(d, acc, cap) ==
    IF d = <<>> THEN acc
    ELSE DigitsToNat(Tail(d),
                     IF acc < cap THEN acc * 10 + DigitVal(Head(d)) ELSE acc,
                     cap)

----------------------------------------------------------------------------
(* Values and outcomes *)

\* An error: its message and the strings formatted into it.
Error(msg, args) == [msg |-> msg, args |-> args]

NoErr == Error("nil", <<>>)

NilVal == [kind |-> "nil"]
StrVal(s) == [kind |-> "string", s |-> s]
BoolVal(b) == [kind |-> "bool", b |-> b]
BytesVal(s) == [kind |-> "bytes", s |-> s]
UintVal(d) == [kind |-> "uint64", digits |-> d]
IntVal(neg, d) == [kind |-> "int64", neg |-> neg, digits |-> d]

\* what a Convert call returns; `invoked` is for a sequence converter, the
\* positions of the converters it called
Ret(v, e) == [val |-> v, err |-> e, invoked |-> <<>>]
Ok(v) == Ret(v, NoErr)

Failed(o) == o.err # NoErr

----------------------------------------------------------------------------
(* strconv: ParseUint(s, 10, 64), ParseInt(s, 10, 64), ParseFloat(s, 64),  *)
(* ParseBool(s).  The 64-bit limits are digit strings, compared without    *)
(* converting to a number, so that no magnitude is out of reach.           *)

ErrSyntax == Error("strconv: invalid syntax", <<>>)
ErrRange == Error("strconv: value out of range", <<>>)

MaxUint64 == Chars("18446744073709551615")
MaxInt64 == Chars("9223372036854775807")
MinInt64Abs == Chars("9223372036854775808")

ParseUint(s) ==
    IF s = <<>> \/ ~IsDigits(s) THEN Ret(UintVal(<<"0">>), ErrSyntax)
    ELSE LET d == StripZeros(s)
         IN  IF DigitsLE(d, MaxUint64) THEN Ok(UintVal(d))
             ELSE Ret(UintVal(MaxUint64), ErrRange)

\* ParseInt with the limits of the bit size: maxPos = 2^(w-1) - 1, minAbs = 2^(w-1)
ParseIntIn(s, maxPos, minAbs) ==
    IF s = <<>> THEN Ret(IntVal(FALSE, <<"0">>), ErrSyntax)
    ELSE LET neg == Head(s) = "-"
             body == IF Head(s) \in {"+", "-"} THEN Tail(s) ELSE s
             un == ParseUint(body)
         IN  IF un.err = ErrSyntax THEN Ret(IntVal(FALSE, <<"0">>), ErrSyntax)
             ELSE IF ~neg /\ ~DigitsLE(un.val.digits, maxPos)
                  THEN Ret(IntVal(FALSE, maxPos), ErrRange)
             ELSE IF neg /\ ~DigitsLE(un.val.digits, minAbs)
                  THEN Ret(IntVal(TRUE, minAbs), ErrRange)
             ELSE Ok(IntVal(neg /\ un.val.digits # <<"0">>, un.val.digits))

ParseInt(s) == ParseIntIn(s, MaxInt64, MinInt64Abs)

\* A float64 is kept as the decimal it was read from, normalised: no leading
\* and no trailing zero in digits, the value being digits * 10^exp.  Rounding
\* to 53 bits is not computed: two numerals are the same float here only when
\* they denote the same decimal.
FloatVal(form, neg, d, e) ==
    [kind |-> "float64", form |-> form, neg |-> neg, digits |-> d, exp |-> e]

FloatZero(neg) == FloatVal("finite", neg, <<"0">>, 0)

\* the exponent digits are accumulated only while e < 10000 (atof.go readFloat)
ExpCap == 10000
\* the largest and the smallest decimal exponent of a finite nonzero float64
MaxExp10 == 308
MinExp10 == -324
\* 2^1024 - 2^970 = 1.7976931348623158079...e308 and above rounds to +Inf
OverflowDigits == Chars("17976931348623158079")

RECURSIVE DropTrailingZeros(_)
DropTrailingZeros(d) ==
    IF Len(d) > 1 /\ d[Len(d)] = "0"
    THEN DropTrailingZeros(SubSeq(d, 1, Len(d) - 1))
    ELSE d

\* d right-padded with zeros, or cut, to n digits
PadTo(d, n) == [i \in 1..n |-> IF i <= Len(d) THEN d[i] ELSE "0"]

\* the float64 for sign, mantissa digits and decimal exponent
MakeFloat(neg, mant, e) ==
    LET lead == StripZeros(mant)
        d == DropTrailingZeros(lead)
        e10 == e + (Len(lead) - Len(d))
        x == Len(d) - 1 + e10
    IN  IF d = <<"0">> \/ x < MinExp10 THEN Ok(FloatZero(neg))
        ELSE IF \/ x > MaxExp10
                \/ x = MaxExp10
                   /\ LexLE(OverflowDigits, PadTo(d, Len(OverflowDigits)))
             THEN Ret(FloatVal("inf", neg, <<"0">>, 0), ErrRange)
        ELSE Ok(FloatVal("finite", neg, d, e10))

\* the index of the first character of s that is not in cs, or Len(s) + 1
RECURSIVE SpanEnd(_, _, _)
SpanEnd(s, cs, i) ==
    IF i > Len(s) \/ s[i] \notin cs THEN i ELSE SpanEnd(s, cs, i + 1)

Unsigned(s) == IF s # <<>> /\ Head(s) \in {"+", "-"} THEN Tail(s) ELSE s

\* atof.go special: [+-]inf, [+-]infinity, nan, in any letter case
Special(s) ==
    LET body == LowerStr(Unsigned(s))
    IN  IF body \in {Chars("inf"), Chars("infinity")}
        THEN [ok |-> TRUE, val |-> FloatVal("inf", Head(s) = "-", <<"0">>, 0)]
        ELSE IF LowerStr(s) = Chars("nan")
        THEN [ok |-> TRUE, val |-> FloatVal("nan", FALSE, <<"0">>, 0)]
        ELSE [ok |-> FALSE, val |-> FloatZero(FALSE)]

\* Decimal numerals only: the hexadecimal form (0x1p-2) and the digit
\* separator '_' that comes with it are outside the modelled character set.
ParseFloat(s) ==
    LET sp == Special(s)
        neg == s # <<>> /\ Head(s) = "-"
        body == Unsigned(s)
        j == SpanEnd(body, DigitChars \cup {"."}, 1)
        mant == SubSeq(body, 1, j - 1)
        rest == SubSeq(body, j, Len(body))
        dot == IndexAny(mant, {"."})
        intPart == IF dot = 0 THEN mant ELSE SubSeq(mant, 1, dot - 1)
        fracPart == IF dot = 0 THEN <<>> ELSE SubSeq(mant, dot + 1, Len(mant))
        expDigits == Unsigned(Tail(rest))
        mantOk == IsDigits(fracPart) /\ Len(intPart) + Len(fracPart) > 0
        expOk == \/ rest = <<>>
                 \/ /\ Lower(Head(rest)) = "e"
                    /\ expDigits # <<>>
                    /\ IsDigits(expDigits)
        e == IF rest = <<>> THEN 0
             ELSE IF Len(rest) > 1 /\ rest[2] = "-"
                  THEN 0 - DigitsToNat(expDigits, 0, ExpCap)
             ELSE DigitsToNat(expDigits, 0, ExpCap)
    IN  IF sp.ok THEN Ok(sp.val)
        ELSE IF ~(mantOk /\ expOk) THEN Ret(FloatZero(FALSE), ErrSyntax)
        ELSE MakeFloat(neg, intPart \o fracPart, e - Len(fracPart))

TrueLiterals ==
    {Chars("1"), Chars("t"), Chars("T"), Chars("TRUE"), Chars("true"), Chars("True")}
FalseLiterals ==
    {Chars("0"), Chars("f"), Chars("F"), Chars("FALSE"), Chars("false"), Chars("False")}

ParseBool(s) ==
    IF s \in TrueLiterals THEN Ok(BoolVal(TRUE))
    ELSE IF s \in FalseLiterals THEN Ok(BoolVal(FALSE))
    ELSE Ret(BoolVal(FALSE), ErrSyntax)

----------------------------------------------------------------------------
(* decimal.NewDecimalFromString (shopspring/decimal NewFromString behind   *)
(* go-tarantool's wrapper), uuid.Parse, and the interval format.           *)

MaxInt32 == Chars("2147483647")
MinInt32Abs == Chars("2147483648")

\* An arbitrary-precision decimal: the integer (neg, digits) times 10^exp.
\* The exponent is exact up to eight digits.
DecimalVal(neg, d, e) == [kind |-> "decimal", neg |-> neg, digits |-> d, exp |-> e]

ErrDecimal == Error("can't convert to decimal", <<>>)

NewDecimalFromString(s) ==
    LET eIndex == IndexAny(s, {"e", "E"})
        expInt == ParseIntIn(SubSeq(s, eIndex + 1, Len(s)), MaxInt32, MinInt32Abs)
        value == IF eIndex = 0 THEN s ELSE SubSeq(s, 1, eIndex - 1)
        pIndex == IndexAny(value, {"."})
        after == IF pIndex = 0 THEN <<>> ELSE SubSeq(value, pIndex + 1, Len(value))
        intString == IF pIndex = 0 THEN value
                     ELSE SubSeq(value, 1, pIndex - 1) \o after
        e == IF eIndex = 0 THEN 0
             ELSE IF expInt.val.neg
                  THEN 0 - DigitsToNat(expInt.val.digits, 0, 100000000)
             ELSE DigitsToNat(expInt.val.digits, 0, 100000000)
        digits == Unsigned(intString)
        bad == \/ eIndex # 0 /\ Failed(expInt)
               \/ IndexAny(after, {"."}) # 0
               \/ digits = <<>>
               \/ ~IsDigits(digits)
    IN  IF bad THEN Ret(DecimalVal(FALSE, <<"0">>, 0), ErrDecimal)
        ELSE Ok(DecimalVal(Head(intString) = "-" /\ StripZeros(digits) # <<"0">>,
                           StripZeros(digits), e - Len(after)))

HexChars == DigitChars \cup {"a", "b", "c", "d", "e", "f", "A", "B", "C", "D", "E", "F"}

UUIDVal(hex) == [kind |-> "uuid", hex |-> hex]
NilUUID == UUIDVal(<<>>)

ErrUUID == Error("invalid UUID", <<>>)

\* xxxxxxxx-xxxx-xxxx-xxxx-xxxxxxxxxxxx
ParseUUID36(s) ==
    LET hyphens == {9, 14, 19, 24}
        hex == SelectSeq([i \in 1..36 |-> IF i \in hyphens THEN "-" ELSE Lower(s[i])],
                         LAMBDA c : c # "-")
    IN  IF /\ \A i \in hyphens : s[i] = "-"
           /\ \A i \in (1..36) \ hyphens : s[i] \in HexChars
        THEN Ok(UUIDVal(hex))
        ELSE Ret(NilUUID, ErrUUID)

ParseUUID(s) ==
    CASE Len(s) = 36 -> ParseUUID36(s)
      [] Len(s) = 36 + 9 ->
            IF LowerStr(SubSeq(s, 1, 9)) # Chars("urn:uuid:") THEN Ret(NilUUID, ErrUUID)
            ELSE ParseUUID36(SubSeq(s, 10, 45))
      [] Len(s) = 36 + 2 -> ParseUUID36(SubSeq(s, 2, 37))
      [] Len(s) = 32 ->
            IF \A i \in 1..32 : s[i] \in HexChars THEN Ok(UUIDVal(LowerStr(s)))
            ELSE Ret(NilUUID, ErrUUID)
      [] OTHER -> Ret(NilUUID, ErrUUID)

intervalFieldsNumber == 9

errUnexpectedIntervalFmt == Error("unexpected interval format", <<>>)

\* datetime.NoneAdjust, ExcessAdjust, LastAdjust
Adjusts == {IntVal(FALSE, <<"0">>), IntVal(FALSE, <<"1">>), IntVal(FALSE, <<"2">>)}

\* Year, Month, Week, Day, Hour, Min, Sec, Nsec, Adjust, in this order
IntervalVal(fields) == [kind |-> "interval", fields |-> fields]

\* Convert taking every int64 for an adjust mode
StringToIntervalConvertAnyAdjust(s) ==
    LET parts == Split(s, ",")
        partsAsInt64 == [i \in 1..Len(parts) |-> ParseInt(parts[i])]
    IN  IF Len(parts) # intervalFieldsNumber THEN Ret(NilVal, errUnexpectedIntervalFmt)
        ELSE IF \E i \in 1..Len(parts) : Failed(partsAsInt64[i])
             THEN Ret(NilVal, errUnexpectedIntervalFmt)
        ELSE Ok(IntervalVal([i \in 1..intervalFieldsNumber |-> partsAsInt64[i].val]))

StringToIntervalConvert(s) ==
    LET parts == Split(s, ",")
        partsAsInt64 == [i \in 1..Len(parts) |-> ParseInt(parts[i])]
    IN  IF Len(parts) # intervalFieldsNumber THEN Ret(NilVal, errUnexpectedIntervalFmt)
        ELSE IF \E i \in 1..Len(parts) : Failed(partsAsInt64[i])
             THEN Ret(NilVal, errUnexpectedIntervalFmt)
        ELSE IF partsAsInt64[intervalFieldsNumber].val \notin Adjusts
             THEN Ret(NilVal, errUnexpectedIntervalFmt)
        ELSE Ok(IntervalVal([i \in 1..intervalFieldsNumber |-> partsAsInt64[i].val]))

\* fmt's %d of a signed integer
FormatInt(v) == (IF v.neg THEN <<"-">> ELSE <<>>) \o v.digits

\* Sprintf printing the integers without their sign
IntervalToStringConvertUnsigned(interval) ==
    LET f == interval.fields
    IN  Ok(StrVal(f[1].digits \o <<",">> \o f[2].digits \o <<",">> \o
                  f[3].digits \o <<",">> \o f[4].digits \o <<",">> \o
                  f[5].digits \o <<",">> \o f[6].digits \o <<",">> \o
                  f[7].digits \o <<",">> \o f[8].digits \o <<",">> \o
                  f[9].digits))

\* IntervalToStringConverter.Convert: "%d,%d,%d,%d,%d,%d,%d,%d,%d" of Year,
\* Month, Week, Day, Hour, Min, Sec, Nsec, Adjust
IntervalToStringConvert(interval) ==
    LET f == interval.fields
    IN  Ok(StrVal(FormatInt(f[1]) \o <<",">> \o FormatInt(f[2]) \o <<",">> \o
                  FormatInt(f[3]) \o <<",">> \o FormatInt(f[4]) \o <<",">> \o
                  FormatInt(f[5]) \o <<",">> \o FormatInt(f[6]) \o <<",">> \o
                  FormatInt(f[7]) \o <<",">> \o FormatInt(f[8]) \o <<",">> \o
                  FormatInt(f[9])))

----------------------------------------------------------------------------
(* time.Parse / time.ParseInLocation for the two layouts of                *)
(* StringToDatetimeConverter, time.LoadLocation and datetime.NewDatetime.  *)

NoTimezone == <<>>

\* the names time.LoadLocation resolves here; the empty name and "UTC" are UTC
ZoneNames == {<<>>, Chars("UTC"), Chars("Europe/Moscow"), Chars("Europe/Paris")}

ErrTime == Error("parsing time: cannot parse", <<>>)
ErrZone == Error("unknown time zone", <<>>)
ErrDatetime == Error("datetime: out of supported range", <<>>)

\* a datetime: the wall clock in its zone, the zone's name (empty for a fixed
\* zone) and the zone's offset in seconds at that time
DatetimeVal(clock, nsec, zone, offset) ==
    [kind |-> "datetime", clock |-> clock, nsec |-> nsec, zone |-> zone,
     offset |-> offset]

IsLeap(y) == y % 4 = 0 /\ (y % 100 # 0 \/ y % 400 = 0)

DaysIn(m, y) ==
    IF m = 2 THEN (IF IsLeap(y) THEN 29 ELSE 28)
    ELSE IF m \in {4, 6, 9, 11} THEN 30 ELSE 31

\* time.atoi: an optional sign, then digits and nothing else
Atoi(s) ==
    LET body == Unsigned(s)
        n == DigitsToNat(body, 0, 100000000)
    IN  IF ~IsDigits(body) THEN [ok |-> FALSE, n |-> 0]
        ELSE [ok |-> TRUE, n |-> IF s # <<>> /\ Head(s) = "-" THEN 0 - n ELSE n]

\* layout 2006-01-02T15:04:05.999999999: the fields read and the text left
\* over.  The hour may have one digit; the fraction is optional, opens with
\* '.' or ',' and takes every digit that follows, the first nine counting.
ParseDateTime(s) ==
    LET at(i) == IF i <= Len(s) THEN s[i] ELSE ""
        num(i, n) == DigitsToNat(SubSeq(s, i, i + n - 1), 0, 100000)
        dig(i, n) == i + n - 1 <= Len(s) /\ IsDigits(SubSeq(s, i, i + n - 1))
        hlen == IF dig(12, 2) THEN 2 ELSE 1
        m0 == 12 + hlen + 1
        s0 == m0 + 3
        f0 == s0 + 2
        hasFrac == at(f0) \in {".", ","} /\ at(f0 + 1) \in DigitChars
        fEnd == IF hasFrac THEN SpanEnd(s, DigitChars, f0 + 1) ELSE f0
        frac == IF hasFrac THEN SubSeq(s, f0 + 1, fEnd - 1) ELSE <<>>
        shape == /\ dig(1, 4) /\ at(5) = "-" /\ dig(6, 2) /\ at(8) = "-"
                 /\ dig(9, 2) /\ at(11) = "T" /\ dig(12, hlen)
                 /\ at(m0 - 1) = ":" /\ dig(m0, 2)
                 /\ at(s0 - 1) = ":" /\ dig(s0, 2)
        clock == [year |-> num(1, 4), month |-> num(6, 2), day |-> num(9, 2),
                  hour |-> num(12, hlen), min |-> num(m0, 2), sec |-> num(s0, 2)]
        inRange == /\ clock.month \in 1..12
                   /\ clock.hour < 24 /\ clock.min < 60 /\ clock.sec < 60
                   /\ clock.day \in 1..DaysIn(clock.month, clock.year)
    IN  IF shape /\ inRange
        THEN [ok |-> TRUE, clock |-> clock, nsec |-> PadTo(frac, 9),
              rest |-> SubSeq(s, fEnd, Len(s))]
        ELSE [ok |-> FALSE, clock |-> <<>>, nsec |-> <<>>, rest |-> <<>>]

\* datetime.NewDatetime accepts offsets from -12 to +14 hours
offsetMin == -43200
offsetMax == 50400

\* the -0700 part: a sign, then two fields of two characters read by atoi
ParseNumTZ(z) ==
    LET hr == Atoi(SubSeq(z, 2, 3))
        mm == Atoi(SubSeq(z, 4, 5))
        off == (hr.n * 60 + mm.n) * 60
    IN  IF Len(z) = 5 /\ Head(z) \in {"+", "-"} /\ hr.ok /\ mm.ok
        THEN [ok |-> TRUE, offset |-> IF Head(z) = "-" THEN 0 - off ELSE off]
        ELSE [ok |-> FALSE, offset |-> 0]

\* a time as the day number of its date and the second of that day; y and
\* m count the years and months from March of the year 0
DayNumberOf(y, m, d) ==
    365 * y + (y \div 4) - (y \div 100) + (y \div 400) + ((153 * m + 2) \div 5) + d - 1

DayNumber(clock) ==
    DayNumberOf(IF clock.month <= 2 THEN clock.year - 1 ELSE clock.year,
                IF clock.month <= 2 THEN clock.month + 9 ELSE clock.month - 3,
                clock.day)

AddSeconds(t, secs) ==
    <<t[1] + ((t[2] + secs) \div 86400), (t[2] + secs) % 86400>>

\* the time, in UTC, at which a zone of this offset shows this wall clock
Instant(clock, offset) ==
    AddSeconds(<<DayNumber(clock), clock.hour * 3600 + clock.min * 60 + clock.sec>>,
               0 - offset)

Before(a, b) == a[1] < b[1] \/ (a[1] = b[1] /\ a[2] < b[2])

Clock(y, mo, d, h, mi, sec) ==
    [year |-> y, month |-> mo, day |-> d, hour |-> h, min |-> mi, sec |-> sec]

\* the wall clock of a day number and a second of the day
ClockOfMonth(y, mp, d, secs) ==
    Clock(IF mp < 10 THEN y ELSE y + 1, IF mp < 10 THEN mp + 3 ELSE mp - 9, d,
          secs \div 3600, (secs \div 60) % 60, secs % 60)
ClockOfDay(y, doy, mp, secs) ==
    ClockOfMonth(y, mp, doy - ((153 * mp + 2) \div 5) + 1, secs)
ClockOfYear(era, yoe, doy, secs) ==
    ClockOfDay(yoe + era * 400, doy, (5 * doy + 2) \div 153, secs)
ClockOfEra(era, doe, yoe, secs) ==
    ClockOfYear(era, yoe, doe - (365 * yoe + (yoe \div 4) - (yoe \div 100)), secs)
ClockOfLocal(era, doe, secs) ==
    ClockOfEra(era, doe,
               (doe - (doe \div 1460) + (doe \div 36524) - (doe \div 146096)) \div 365,
               secs)

\* the wall clock a zone of this offset shows at a time
ClockAt(local) == ClockOfLocal(local[1] \div 146097, local[1] % 146097, local[2])
ClockOf(t, offset) == ClockAt(AddSeconds(t, offset))

\* The zones as time.LoadLocation gives them: the offset before the first
\* transition and the transitions, of which only those of 2020 are kept
\* (Europe/Paris: +01:00, +02:00 from 29 March 01:00 UTC to 25 October 01:00 UTC).
ZoneTable(name) ==
    IF name = Chars("Europe/Paris")
    THEN [first |-> 3600,
          tx |-> <<[when |-> Instant(Clock(2020, 3, 29, 1, 0, 0), 0), offset |-> 7200],
                   [when |-> Instant(Clock(2020, 10, 25, 1, 0, 0), 0), offset |-> 3600]>>]
    ELSE IF name = Chars("Europe/Moscow") THEN [first |-> 10800, tx |-> <<>>]
    ELSE [first |-> 0, tx |-> <<>>]

\* Location.lookup: the offset in use at a time, and the transitions (their
\* indices, 0 and Len + 1 for none) between which that time lies
Latest(past) == IF past = {} THEN 0 ELSE CHOOSE i \in past : \A j \in past : j <= i
Period(zone, last) ==
    [offset |-> IF last = 0 THEN zone.first ELSE zone.tx[last].offset,
     start |-> last, end |-> last + 1]
lookupIn(zone, t) ==
    Period(zone, Latest({i \in 1..Len(zone.tx) : ~Before(t, zone.tx[i].when)}))
lookup(name, t) == lookupIn(ZoneTable(name), t)

\* time.Date in a location: the offset at the wall clock read as UTC, kept
\* if the time it gives lies in the same period, looked up again if not
OffsetSettled(zone, first, utc) ==
    IF /\ first.offset # 0
       /\ \/ first.start > 0 /\ Before(utc, zone.tx[first.start].when)
          \/ first.end <= Len(zone.tx) /\ ~Before(utc, zone.tx[first.end].when)
    THEN lookupIn(zone, utc).offset
    ELSE first.offset
OffsetTried(zone, unix, first) ==
    OffsetSettled(zone, first, AddSeconds(unix, 0 - first.offset))
OffsetOfWall(zone, unix) == OffsetTried(zone, unix, lookupIn(zone, unix))
ZoneOffsetOfWall(name, clock) == OffsetOfWall(ZoneTable(name), Instant(clock, 0))

\* the Time of time.Date in a location: the time found for the wall clock,
\* with the wall clock and offset the location has at that time
Shown(t, offset, nsec, zone) == DatetimeVal(ClockOf(t, offset), nsec, zone, offset)
DateAt(name, t, nsec, zone) == Shown(t, lookup(name, t).offset, nsec, zone)
DateIn(name, clock, nsec, zone) ==
    DateAt(name, Instant(clock, ZoneOffsetOfWall(name, clock)), nsec, zone)

\* the zone form keeping what follows the date and time unread
StringToDatetimeConvertLoose(s) ==
    LET sp == IndexAny(s, {" "})
        date == IF sp = 0 THEN s ELSE SubSeq(s, 1, sp - 1)
        tzName == IF sp = 0 THEN <<>> ELSE SubSeq(s, sp + 1, Len(s))
        tm == ParseDateTime(date)
        tz == ParseNumTZ(tm.rest)
    IN  IF sp = 0
        THEN IF ~tm.ok \/ ~tz.ok THEN Ret(NilVal, ErrTime)
             ELSE IF tz.offset < offsetMin \/ tz.offset > offsetMax
                  THEN Ret(NilVal, ErrDatetime)
             ELSE Ok(DatetimeVal(tm.clock, tm.nsec, NoTimezone, tz.offset))
        ELSE IF tzName \notin ZoneNames THEN Ret(NilVal, ErrZone)
        ELSE IF ~tm.ok THEN Ret(NilVal, ErrTime)
        ELSE Ok(DateIn(tzName, tm.clock, tm.nsec,
                       IF tzName = <<>> THEN Chars("UTC") ELSE tzName))

StringToDatetimeConvert(s) ==
    LET sp == IndexAny(s, {" "})
        date == IF sp = 0 THEN s ELSE SubSeq(s, 1, sp - 1)
        tzName == IF sp = 0 THEN <<>> ELSE SubSeq(s, sp + 1, Len(s))
        tm == ParseDateTime(date)
        tz == ParseNumTZ(tm.rest)
    IN  IF sp = 0
        THEN IF ~tm.ok \/ ~tz.ok THEN Ret(NilVal, ErrTime)
             ELSE IF tz.offset < offsetMin \/ tz.offset > offsetMax
                  THEN Ret(NilVal, ErrDatetime)
             ELSE Ok(DatetimeVal(tm.clock, tm.nsec, NoTimezone, tz.offset))
        ELSE IF tzName \notin ZoneNames THEN Ret(NilVal, ErrZone)
        ELSE IF ~tm.ok \/ tm.rest # <<>> THEN Ret(NilVal, ErrTime)
        ELSE Ok(DateIn(tzName, tm.clock, tm.nsec,
                       IF tzName = <<>> THEN Chars("UTC") ELSE tzName))

\* Time.Format: a number in two and in four digits, the fraction without
\* its trailing zeros, the offset as -0700
Digit(n) == <<"0", "1", "2", "3", "4", "5", "6", "7", "8", "9">>[n + 1]
Pad2(n) == <<Digit((n \div 10) % 10), Digit(n % 10)>>
Pad4(n) == Pad2(n \div 100) \o Pad2(n % 100)

FormatFraction(nsec) ==
    IF \A i \in 1..Len(nsec) : nsec[i] = "0" THEN <<>>
    ELSE <<".">> \o DropTrailingZeros(nsec)

FormatDateTime(clock, nsec) ==
    Pad4(clock.year) \o <<"-">> \o Pad2(clock.month) \o <<"-">> \o Pad2(clock.day)
    \o <<"T">> \o Pad2(clock.hour) \o <<":">> \o Pad2(clock.min)
    \o <<":">> \o Pad2(clock.sec) \o FormatFraction(nsec)

FormatOffset(offset) ==
    LET minutes == (IF offset < 0 THEN 0 - offset ELSE offset) \div 60
    IN  <<IF offset < 0 THEN "-" ELSE "+">>
        \o Pad2(minutes \div 60) \o Pad2(minutes % 60)

\* DatetimeToStringConverter.Convert
DatetimeToStringConvert(datetime) ==
    IF datetime.zone # <<>>
    THEN Ok(StrVal(FormatDateTime(datetime.clock, datetime.nsec)
                   \o <<" ">> \o datetime.zone))
    ELSE Ok(StrVal(FormatDateTime(datetime.clock, datetime.nsec)
                   \o FormatOffset(datetime.offset)))

----------------------------------------------------------------------------
(* encoding/json: Unmarshal into an `any`.  The whole JSON grammar but the *)
(* backslash escapes of strings, which are outside the modelled character  *)
(* set: a string holding a backslash is refused here.                      *)

ErrJSON == Error("json: invalid", <<>>)

SliceVal(elems) == [kind |-> "slice", elems |-> elems]
MapVal(m) == [kind |-> "map", m |-> m]

JSONSpace == {" ", "\t", "\n", "\r"}

At(s, i) == IF i >= 1 /\ i <= Len(s) THEN s[i] ELSE ""

SkipSpace(s, i) == SpanEnd(s, JSONSpace, i)

JSONFail == [ok |-> FALSE, val |-> NilVal, next |-> 0]
JSONOk(v, n) == [ok |-> TRUE, val |-> v, next |-> n]

\* the index after the number that starts at i, or 0: -?(0|[1-9][0-9]*)(.[0-9]+)?([eE][+-]?[0-9]+)?
JSONNumberEnd(s, i) ==
    LET i1 == IF At(s, i) = "-" THEN i + 1 ELSE i
        intEnd == IF At(s, i1) = "0" THEN i1 + 1
                  ELSE IF At(s, i1) \in DigitChars THEN SpanEnd(s, DigitChars, i1)
                  ELSE 0
        fracEnd == IF intEnd = 0 THEN 0
                   ELSE IF At(s, intEnd) # "." THEN intEnd
                   ELSE IF At(s, intEnd + 1) \in DigitChars
                        THEN SpanEnd(s, DigitChars, intEnd + 1)
                   ELSE 0
        e1 == IF At(s, fracEnd + 1) \in {"+", "-"} THEN fracEnd + 2 ELSE fracEnd + 1
    IN  IF fracEnd = 0 THEN 0
        ELSE IF At(s, fracEnd) \notin {"e", "E"} THEN fracEnd
        ELSE IF At(s, e1) \in DigitChars THEN SpanEnd(s, DigitChars, e1)
        ELSE 0

JSONLiteral(s, i, word, v) ==
    IF i + Len(word) - 1 <= Len(s) /\ SubSeq(s, i, i + Len(word) - 1) = Chars(word)
    THEN JSONOk(v, i + Len(word))
    ELSE JSONFail

\* the string whose opening quote is at i
JSONString(s, i) ==
    LET close == IndexAnyFrom(s, {"\""}, i + 1)
        body == SubSeq(s, i + 1, close - 1)
    IN  IF At(s, i) # "\"" \/ close = 0 \/ IndexAny(body, {"\\", "\n", "\t", "\r"}) # 0
        THEN JSONFail
        ELSE JSONOk(StrVal(body), close + 1)

JSONNumber(s, i) ==
    LET end == JSONNumberEnd(s, i)
        f == ParseFloat(SubSeq(s, i, end - 1))
    IN  IF end = 0 \/ Failed(f) THEN JSONFail ELSE JSONOk(f.val, end)

RECURSIVE JSONValue(_, _)
RECURSIVE JSONArrayRest(_, _, _)
RECURSIVE JSONObjectRest(_, _, _)

\* the value that starts at i (no leading space)
JSONValue(s, i) ==
    LET c == At(s, i)
    IN  CASE c = "n" -> JSONLiteral(s, i, "null", NilVal)
          [] c = "t" -> JSONLiteral(s, i, "true", BoolVal(TRUE))
          [] c = "f" -> JSONLiteral(s, i, "false", BoolVal(FALSE))
          [] c = "\"" -> JSONString(s, i)
          [] c = "[" ->
                LET j == SkipSpace(s, i + 1)
                IN  IF At(s, j) = "]" THEN JSONOk(SliceVal(<<>>), j + 1)
                    ELSE JSONArrayRest(s, j, <<>>)
          [] c = "{" ->
                LET j == SkipSpace(s, i + 1)
                IN  IF At(s, j) = "}" THEN JSONOk(MapVal(<<>>), j + 1)
                    ELSE JSONObjectRest(s, j, <<>>)
          [] c \in DigitChars \cup {"-"} -> JSONNumber(s, i)
          [] OTHER -> JSONFail

\* the elements of an array from the one that starts at i, acc before them
JSONArrayRest(s, i, acc) ==
    LET v == JSONValue(s, i)
        j == SkipSpace(s, v.next)
    IN  IF ~v.ok THEN JSONFail
        ELSE IF At(s, j) = "," THEN JSONArrayRest(s, SkipSpace(s, j + 1), Append(acc, v.val))
        ELSE IF At(s, j) = "]" THEN JSONOk(SliceVal(Append(acc, v.val)), j + 1)
        ELSE JSONFail

\* the members of an object from the key that starts at i; a later key wins
JSONObjectRest(s, i, m) ==
    LET k == JSONString(s, i)
        colon == SkipSpace(s, k.next)
        v == JSONValue(s, SkipSpace(s, colon + 1))
        j == SkipSpace(s, v.next)
        m2 == (k.val.s :> v.val) @@ m
    IN  IF ~k.ok \/ At(s, colon) # ":" THEN JSONFail
        ELSE IF ~v.ok THEN JSONFail
        ELSE IF At(s, j) = "," THEN JSONObjectRest(s, SkipSpace(s, j + 1), m2)
        ELSE IF At(s, j) = "}" THEN JSONOk(MapVal(m2), j + 1)
        ELSE JSONFail

Unmarshal(s) ==
    LET v == JSONValue(s, SkipSpace(s, 1))
    IN  IF v.ok /\ SkipSpace(s, v.next) = Len(s) + 1 THEN Ok(v.val)
        ELSE Ret(NilVal, ErrJSON)

\* StringToMapConverter.Convert: `var result any`, so any JSON value is taken
StringToMapConvert(s) == Unmarshal(s)

\* the decoding into a []any instead: an array, or null for the nil slice
StringToSliceConvertTyped(s) ==
    IF Unmarshal(s).err = NoErr /\ Unmarshal(s).val.kind \notin {"slice", "nil"}
    THEN Ret(NilVal, ErrJSON)
    ELSE Unmarshal(s)

\* StringToSliceConverter.Convert: the same body
StringToSliceConvert(s) == Unmarshal(s)

----------------------------------------------------------------------------
(* Converters.  A Converter is a record naming its Go type and holding the *)
(* configuration it was built with; Convert(conv, src) is its method.      *)

\* the nil Converter interface value: calling Convert on it panics
NilConverter == [type |-> "nil"]

Panic == Error("panic: nil pointer dereference", <<>>)

Panicked(o) == o.err = Panic

MakeIdentityConverter == [type |-> "IdentityConverter"]

\* A convFunc closure is given by what it returns: table[src] for the inputs
\* it singles out, and for the others either src itself (echo) or `other`.
Closure(table, echo, other) == [table |-> table, echo |-> echo, other |-> other]

Apply(convFunc, s) ==
    IF s \in DOMAIN convFunc.table THEN convFunc.table[s]
    ELSE IF convFunc.echo THEN Ok(StrVal(s))
    ELSE convFunc.other

MakeFuncConverter(convFunc) == [type |-> "FuncConverter", convFunc |-> convFunc]

\* the FuncConverter whose closure tries the converters in order
MakeSequenceConverter(converters) ==
    [type |-> "SequenceConverter", converters |-> converters]

\* the loop leaving after the first of charsToReplace
replaceCharactersHead(s, charsToReplace, replaceTo) ==
    IF charsToReplace = <<>> THEN s
    ELSE ReplaceAll(s, Head(charsToReplace), replaceTo)

RECURSIVE replaceCharacters(_, _, _)
replaceCharacters(s, charsToReplace, replaceTo) ==
    IF charsToReplace = <<>> THEN s
    ELSE replaceCharacters(ReplaceAll(s, Head(charsToReplace), replaceTo),
                           Tail(charsToReplace), replaceTo)

MakeStringToBoolConverter == [type |-> "StringToBoolConverter"]
MakeStringToUIntConverter(ignoreChars) ==
    [type |-> "StringToUIntConverter", ignoreChars |-> ignoreChars]
MakeStringToIntConverter(ignoreChars) ==
    [type |-> "StringToIntConverter", ignoreChars |-> ignoreChars]
MakeStringToFloatConverter(ignoreChars, decSeparators) ==
    [type |-> "StringToFloatConverter", ignoreChars |-> ignoreChars,
     decSeparators |-> decSeparators]
MakeStringToDecimalConverter(ignoreChars, decSeparators) ==
    [type |-> "StringToDecimalConverter", ignoreChars |-> ignoreChars,
     decSeparators |-> decSeparators]
MakeStringToUUIDConverter == [type |-> "StringToUUIDConverter"]
MakeStringToDatetimeConverter == [type |-> "StringToDatetimeConverter"]
MakeStringToMapConverter == [type |-> "StringToMapConverter"]
MakeStringToSliceConverter == [type |-> "StringToSliceConverter"]
MakeStringToBinaryConverter == [type |-> "StringToBinaryConverter"]
MakeStringToNullConverter(nullValue) ==
    [type |-> "StringToNullConverter", nullValue |-> nullValue]
MakeIntervalToStringConverter == [type |-> "IntervalToStringConverter"]
MakeDatetimeToStringConverter == [type |-> "DatetimeToStringConverter"]
MakeStringToIntervalConverter == [type |-> "StringToIntervalConverter"]

ErrUnexpectedValue(s) == Error("unexpected value", <<s>>)

StringToUIntConvert(conv, s) ==
    ParseUint(replaceCharacters(s, conv.ignoreChars, <<>>))

StringToIntConvert(conv, s) ==
    ParseInt(replaceCharacters(s, conv.ignoreChars, <<>>))

\* Convert with the decimal separators left as they are
StringToFloatConvertUnfolded(conv, s) ==
    ParseFloat(replaceCharacters(s, conv.ignoreChars, <<>>))

\* zero returned, as C's atof does, for what ParseFloat refuses
StringToFloatConvertOrZero(conv, s) ==
    IF Failed(ParseFloat(replaceCharacters(replaceCharacters(s, conv.ignoreChars, <<>>),
                                           conv.decSeparators, <<".">>)))
    THEN Ok(FloatZero(FALSE))
    ELSE ParseFloat(replaceCharacters(replaceCharacters(s, conv.ignoreChars, <<>>),
                                      conv.decSeparators, <<".">>))

\* the two replacements in the other order
replacedFoldFirst(s, ignoreChars, decSeparators) ==
    replaceCharacters(replaceCharacters(s, decSeparators, <<".">>), ignoreChars, <<>>)

\* src after the two calls of replaceCharacters
replaced(s, ignoreChars, decSeparators) ==
    replaceCharacters(replaceCharacters(s, ignoreChars, <<>>), decSeparators, <<".">>)

StringToFloatConvert(conv, s) ==
    ParseFloat(replaced(s, conv.ignoreChars, conv.decSeparators))

StringToDecimalConvert(conv, s) ==
    NewDecimalFromString(replaced(s, conv.ignoreChars, conv.decSeparators))

\* the comparison made after the spaces of the input are dropped
StringToNullConvertTrimmed(conv, s) ==
    IF ReplaceAll(s, " ", <<>>) # conv.nullValue
    THEN Ret(NilVal, ErrUnexpectedValue(s))
    ELSE Ok(NilVal)

StringToNullConvert(conv, s) ==
    IF s # conv.nullValue THEN Ret(NilVal, ErrUnexpectedValue(s)) ELSE Ok(NilVal)

\* The converter MakeTypeToTTConverters makes for a field: a FuncConverter
\* whose closure holds the field's converter and type name.
MakeFieldConverter(conv, typ) == [type |-> "FieldConverter", conv |-> conv, typ |-> typ]

ErrUnexpectedValueForType(s, typ) ==
    Error("unexpected value for type", <<s, Chars(typ)>>)

\* the closure's body handing on the error conv.Convert(s) returned
FieldResultSameError(r, s, typ) ==
    IF r.err # NoErr THEN Ret(NilVal, r.err) ELSE Ret(r.val, NoErr)

\* the closure's body, r being what conv.Convert(s) returned
FieldResult(r, s, typ) ==
    IF Panicked(r) THEN r
    ELSE IF r.err # NoErr THEN Ret(NilVal, ErrUnexpectedValueForType(s, typ))
    ELSE Ret(r.val, NoErr)

RECURSIVE Convert(_, _)
RECURSIVE SequenceRun(_, _, _, _)

\* The closure of MakeSequenceConverter from its i-th converter on: the outcome,
\* and `invoked`, the positions of the converters whose Convert was called.
\* the loop without its early return: the last success wins
RECURSIVE SequenceRunLast(_, _, _, _)
SequenceRunLast(converters, s, i, invoked) ==
    IF i > Len(converters)
    THEN [val |-> NilVal, err |-> ErrUnexpectedValue(s), invoked |-> invoked]
    ELSE LET r == Convert(converters[i], s)
             rest == SequenceRunLast(converters, s, i + 1, Append(invoked, i))
         IN  IF rest.err = NoErr \/ r.err # NoErr THEN rest
             ELSE [val |-> r.val, err |-> NoErr, invoked |-> rest.invoked]

SequenceRun(converters, s, i, invoked) ==
    IF i > Len(converters)
    THEN [val |-> NilVal, err |-> ErrUnexpectedValue(s), invoked |-> invoked]
    ELSE LET r == Convert(converters[i], s)
         IN  IF r.err = NoErr \/ Panicked(r)
             THEN [val |-> r.val, err |-> r.err, invoked |-> Append(invoked, i)]
             ELSE SequenceRun(converters, s, i + 1, Append(invoked, i))

SequenceConvert(conv, s) == SequenceRun(conv.converters, s, 1, <<>>)

Convert(conv, s) ==
    CASE conv.type = "nil" -> Ret(NilVal, Panic)
      [] conv.type = "IdentityConverter" -> Ok(StrVal(s))
      [] conv.type = "FuncConverter" -> Apply(conv.convFunc, s)
      [] conv.type = "SequenceConverter" -> SequenceConvert(conv, s)
      [] conv.type = "StringToBoolConverter" -> ParseBool(s)
      [] conv.type = "StringToUIntConverter" -> StringToUIntConvert(conv, s)
      [] conv.type = "StringToIntConverter" -> StringToIntConvert(conv, s)
      [] conv.type = "StringToFloatConverter" -> StringToFloatConvert(conv, s)
      [] conv.type = "StringToDecimalConverter" -> StringToDecimalConvert(conv, s)
      [] conv.type = "StringToUUIDConverter" -> ParseUUID(s)
      [] conv.type = "StringToDatetimeConverter" -> StringToDatetimeConvert(s)
      [] conv.type = "StringToMapConverter" -> StringToMapConvert(s)
      [] conv.type = "StringToSliceConverter" -> StringToSliceConvert(s)
      [] conv.type = "StringToBinaryConverter" -> Ok(BytesVal(s))
      [] conv.type = "StringToNullConverter" -> StringToNullConvert(conv, s)
      [] conv.type = "StringToIntervalConverter" -> StringToIntervalConvert(s)
      [] conv.type = "IntervalToStringConverter" -> IntervalToStringConvert(s)
      [] conv.type = "DatetimeToStringConverter" -> DatetimeToStringConvert(s)
      [] conv.type = "FieldConverter" ->
            FieldResult(Convert(conv.conv, s), s, conv.typ)

----------------------------------------------------------------------------
(* TypeName, the TTConvFactory interface with its implementations          *)
(* (StringToTTConvFactory, the tests' MockTypeToTTConvFactory and factory  *)
(* types embedding StringToTTConvFactory), GetConverterByType and          *)
(* MakeTypeToTTConverters.                                                 *)

TypeBoolean == "boolean"
TypeString == "string"
TypeInteger == "integer"
TypeUnsigned == "unsigned"
TypeDouble == "double"
TypeNumber == "number"
TypeDecimal == "decimal"
TypeDatetime == "datetime"
TypeUUID == "uuid"
TypeArray == "array"
TypeMap == "map"
TypeVarbinary == "varbinary"
TypeScalar == "scalar"
TypeAny == "any"
TypeInterval == "interval"

defaultThousandSeparators == <<>>
defaultDecimalSeparators == <<".">>
defaultNullValue == <<>>

MakeStringToTTConvFactory ==
    [type |-> "StringToTTConvFactory",
     thousandSeparators |-> defaultThousandSeparators,
     decimalSeparators |-> defaultDecimalSeparators,
     nullValue |-> defaultNullValue]

MockTypeToTTConvFactory == [type |-> "MockTypeToTTConvFactory"]

IsMock(fac) == fac.type = "MockTypeToTTConvFactory"

\* a converter of the mock factory: it returns the name whatever the input
MockConverter(name) ==
    MakeFuncConverter(Closure(<<>>, FALSE, Ok(StrVal(Chars(name)))))

GetBooleanConverter(fac) ==
    IF IsMock(fac) THEN MockConverter("boolean") ELSE MakeStringToBoolConverter

GetStringConverter(fac) ==
    IF IsMock(fac) THEN MockConverter("string") ELSE MakeIdentityConverter

GetUnsignedConverter(fac) ==
    IF IsMock(fac) THEN MockConverter("unsigned")
    ELSE MakeStringToUIntConverter(fac.thousandSeparators)

GetDatetimeConverter(fac) ==
    IF IsMock(fac) THEN MockConverter("datetime") ELSE MakeStringToDatetimeConverter

GetUUIDConverter(fac) ==
    IF IsMock(fac) THEN MockConverter("uuid") ELSE MakeStringToUUIDConverter

GetMapConverter(fac) ==
    IF IsMock(fac) THEN MockConverter("map") ELSE MakeStringToMapConverter

GetArrayConverter(fac) ==
    IF IsMock(fac) THEN MockConverter("array") ELSE MakeStringToSliceConverter

GetVarbinaryConverter(fac) ==
    IF IsMock(fac) THEN MockConverter("varbinary") ELSE MakeStringToBinaryConverter

GetDoubleConverter(fac) ==
    IF IsMock(fac) THEN MockConverter("double")
    ELSE MakeStringToFloatConverter(fac.thousandSeparators, fac.decimalSeparators)

GetDecimalConverter(fac) ==
    IF IsMock(fac) THEN MockConverter("decimal")
    ELSE MakeStringToDecimalConverter(fac.thousandSeparators, fac.decimalSeparators)

\* GetIntegerConverter with GetNumberConverter's list: a float fallback
GetIntegerConverterWithFloat(fac) ==
    IF IsMock(fac) THEN MockConverter("integer")
    ELSE MakeSequenceConverter(<<
            MakeStringToUIntConverter(fac.thousandSeparators),
            MakeStringToIntConverter(fac.thousandSeparators),
            MakeStringToFloatConverter(fac.thousandSeparators, fac.decimalSeparators)>>)

GetIntegerConverter(fac) ==
    IF IsMock(fac) THEN MockConverter("integer")
    ELSE MakeSequenceConverter(<<
            MakeStringToUIntConverter(fac.thousandSeparators),
            MakeStringToIntConverter(fac.thousandSeparators)>>)

\* GetNumberConverter trying signed before unsigned
GetNumberConverterSignedFirst(fac) ==
    IF IsMock(fac) THEN MockConverter("number")
    ELSE MakeSequenceConverter(<<
            MakeStringToIntConverter(fac.thousandSeparators),
            MakeStringToUIntConverter(fac.thousandSeparators),
            MakeStringToFloatConverter(fac.thousandSeparators, fac.decimalSeparators)>>)

GetNumberConverter(fac) ==
    IF IsMock(fac) THEN MockConverter("number")
    ELSE MakeSequenceConverter(<<
            MakeStringToUIntConverter(fac.thousandSeparators),
            MakeStringToIntConverter(fac.thousandSeparators),
            MakeStringToFloatConverter(fac.thousandSeparators, fac.decimalSeparators)>>)

GetIntervalConverter(fac) ==
    IF IsMock(fac) THEN MockConverter("interval") ELSE MakeStringToIntervalConverter

\* GetAnyConverter trying boolean before number
GetAnyConverterBooleanFirst(fac) ==
    IF IsMock(fac) THEN MockConverter("any")
    ELSE MakeSequenceConverter(<<
            GetBooleanConverter(fac),
            GetNumberConverter(fac),
            GetDecimalConverter(fac),
            GetDatetimeConverter(fac),
            GetUUIDConverter(fac),
            GetIntervalConverter(fac),
            GetStringConverter(fac)>>)

GetAnyConverter(fac) ==
    IF IsMock(fac) THEN MockConverter("any")
    ELSE MakeSequenceConverter(<<
            GetNumberConverter(fac),
            GetDecimalConverter(fac),
            GetBooleanConverter(fac),
            GetDatetimeConverter(fac),
            GetUUIDConverter(fac),
            GetIntervalConverter(fac),
            GetStringConverter(fac)>>)

\* GetScalarConverter without the string converter at the end
GetScalarConverterWithoutString(fac) ==
    IF IsMock(fac) THEN MockConverter("scalar")
    ELSE MakeSequenceConverter(<<
            GetNumberConverter(fac),
            GetDecimalConverter(fac),
            GetBooleanConverter(fac),
            GetDatetimeConverter(fac),
            GetUUIDConverter(fac),
            GetIntervalConverter(fac)>>)

GetScalarConverter(fac) ==
    IF IsMock(fac) THEN MockConverter("scalar")
    ELSE MakeSequenceConverter(<<
            GetNumberConverter(fac),
            GetDecimalConverter(fac),
            GetBooleanConverter(fac),
            GetDatetimeConverter(fac),
            GetUUIDConverter(fac),
            GetIntervalConverter(fac),
            GetStringConverter(fac)>>)

\* MakeNullableConverter trying the base converter before the null one
MakeNullableConverterBaseFirst(fac, conv) ==
    IF IsMock(fac) THEN MockConverter("null")
    ELSE MakeSequenceConverter(<<conv, MakeStringToNullConverter(fac.nullValue)>>)

\* The mock's nullable converter calls conv and returns "null" whatever it gave.
MakeNullableConverter(fac, conv) ==
    IF IsMock(fac) THEN MockConverter("null")
    ELSE MakeSequenceConverter(<<MakeStringToNullConverter(fac.nullValue), conv>>)

\* a method with a pointer receiver: the caller's value is the one modified
PointerReceiver(receiver, modified) == [receiver |-> modified, returned |-> modified]

\* a method with a value receiver, func (fac StringToTTConvFactory) With...:
\* it modifies and returns its copy, the caller's value stays as it was
ValueReceiver(receiver, modified) == [receiver |-> receiver, returned |-> modified]

WithNullValue(fac, nullValue) == [fac EXCEPT !.nullValue = nullValue]

WithThousandSeparators(fac, separators) ==
    [fac EXCEPT !.thousandSeparators = separators]

WithDecimalSeparators(fac, separators) ==
    [fac EXCEPT !.decimalSeparators = separators]

\* the switch of GetConverterByType: the factory operation of a type name,
\* "" for the default branch
FactoryOperation(typ) ==
    CASE typ = TypeBoolean -> "GetBooleanConverter"
      [] typ = TypeString -> "GetStringConverter"
      [] typ = TypeUnsigned -> "GetUnsignedConverter"
      [] typ = TypeDatetime -> "GetDatetimeConverter"
      [] typ = TypeUUID -> "GetUUIDConverter"
      [] typ = TypeMap -> "GetMapConverter"
      [] typ = TypeArray -> "GetArrayConverter"
      [] typ = TypeVarbinary -> "GetVarbinaryConverter"
      [] typ = TypeDouble -> "GetDoubleConverter"
      [] typ = TypeDecimal -> "GetDecimalConverter"
      [] typ = TypeInteger -> "GetIntegerConverter"
      [] typ = TypeNumber -> "GetNumberConverter"
      [] typ = TypeAny -> "GetAnyConverter"
      [] typ = TypeScalar -> "GetScalarConverter"
      [] typ = TypeInterval -> "GetIntervalConverter"
      [] OTHER -> ""

\* A factory type that embeds StringToTTConvFactory and defines methods of
\* its own: `methods` gives, for each name defined, the converter it returns.
\* The methods of the embedded factory are promoted, and run on it.
MakeCustomFactory(embedded, methods) ==
    [type |-> "customFactory", embedded |-> embedded, methods |-> methods]

IsCustom(fac) == fac.type = "customFactory"

\* the factory on which a method that fac does not define itself runs
Promoted(fac) == IF IsCustom(fac) THEN fac.embedded ELSE fac

\* a method set in which the embedding struct's own methods are never found
DefinesNone(fac, operation) == FALSE

Defines(fac, operation) == IsCustom(fac) /\ operation \in DOMAIN fac.methods

\* a method call through the TTConvFactory interface
Invoke(fac, operation) ==
    IF Defines(fac, operation) THEN fac.methods[operation]
    ELSE
    CASE operation = "GetBooleanConverter" -> GetBooleanConverter(Promoted(fac))
      [] operation = "GetStringConverter" -> GetStringConverter(Promoted(fac))
      [] operation = "GetUnsignedConverter" -> GetUnsignedConverter(Promoted(fac))
      [] operation = "GetDatetimeConverter" -> GetDatetimeConverter(Promoted(fac))
      [] operation = "GetUUIDConverter" -> GetUUIDConverter(Promoted(fac))
      [] operation = "GetMapConverter" -> GetMapConverter(Promoted(fac))
      [] operation = "GetArrayConverter" -> GetArrayConverter(Promoted(fac))
      [] operation = "GetVarbinaryConverter" -> GetVarbinaryConverter(Promoted(fac))
      [] operation = "GetDoubleConverter" -> GetDoubleConverter(Promoted(fac))
      [] operation = "GetDecimalConverter" -> GetDecimalConverter(Promoted(fac))
      [] operation = "GetIntegerConverter" -> GetIntegerConverter(Promoted(fac))
      [] operation = "GetNumberConverter" -> GetNumberConverter(Promoted(fac))
      [] operation = "GetAnyConverter" -> GetAnyConverter(Promoted(fac))
      [] operation = "GetScalarConverter" -> GetScalarConverter(Promoted(fac))
      [] operation = "GetIntervalConverter" -> GetIntervalConverter(Promoted(fac))

\* fac.MakeNullableConverter(conv) through the interface
InvokeMakeNullableConverter(fac, conv) ==
    IF Defines(fac, "MakeNullableConverter") THEN fac.methods["MakeNullableConverter"]
    ELSE MakeNullableConverter(Promoted(fac), conv)

ErrUnexpectedType(typ) == Error("unexpected type", <<Chars(typ)>>)

\* GetConverterByType with the scalar case calling what the any case calls
GetConverterByTypeScalarAsAny(fac, typ) ==
    LET operation == FactoryOperation(IF typ = TypeScalar THEN TypeAny ELSE typ)
    IN  IF operation = ""
        THEN [conv |-> NilConverter, err |-> ErrUnexpectedType(typ), invoked |-> <<>>]
        ELSE [conv |-> Invoke(fac, operation), err |-> NoErr,
              invoked |-> <<operation>>]

\* conv and err as returned, and `invoked`, the factory operations called
GetConverterByType(fac, typ) ==
    LET operation == FactoryOperation(typ)
    IN  IF operation = ""
        THEN [conv |-> NilConverter, err |-> ErrUnexpectedType(typ), invoked |-> <<>>]
        ELSE [conv |-> Invoke(fac, operation), err |-> NoErr,
              invoked |-> <<operation>>]

\* SpaceField: of its fields MakeTypeToTTConverters reads Type and IsNullable
SpaceField(typ, isNull) == [Type |-> typ, IsNullable |-> isNull]

\* the loop wrapping every field, nullable or not
RECURSIVE MakeLoopAllNullable(_, _, _, _, _, _)
MakeLoopAllNullable(fac, fmt, i, converters, dispatched, wrapped) ==
    IF i > Len(fmt)
    THEN [isNil |-> FALSE, converters |-> converters, err |-> NoErr,
          dispatched |-> dispatched, wrapped |-> wrapped]
    ELSE LET typ == fmt[i].Type
             byType == GetConverterByType(fac, typ)
         IN  IF byType.err # NoErr
             THEN [isNil |-> TRUE, converters |-> <<>>, err |-> byType.err,
                   dispatched |-> Append(dispatched, i), wrapped |-> wrapped]
             ELSE MakeLoopAllNullable(fac, fmt, i + 1,
                      [converters EXCEPT ![i] = MakeFieldConverter(
                          InvokeMakeNullableConverter(fac, byType.conv), typ)],
                      Append(dispatched, i), Append(wrapped, i))

\* the loop going on after a dispatch error, to return the last one
RECURSIVE MakeLoopLastError(_, _, _, _, _, _)
MakeLoopLastError(fac, fmt, i, converters, dispatched, wrapped) ==
    IF i > Len(fmt)
    THEN [isNil |-> FALSE, converters |-> converters, err |-> NoErr,
          dispatched |-> dispatched, wrapped |-> wrapped]
    ELSE LET typ == fmt[i].Type
             byType == GetConverterByType(fac, typ)
             rest == MakeLoopLastError(fac, fmt, i + 1, converters,
                                       Append(dispatched, i), wrapped)
         IN  IF byType.err # NoErr /\ rest.err = NoErr
             THEN [isNil |-> TRUE, converters |-> <<>>, err |-> byType.err,
                   dispatched |-> rest.dispatched, wrapped |-> wrapped]
             ELSE IF rest.err # NoErr THEN rest
             ELSE [rest EXCEPT !.converters[i] = MakeFieldConverter(
                       IF fmt[i].IsNullable
                       THEN InvokeMakeNullableConverter(fac, byType.conv)
                       ELSE byType.conv, typ)]

\* The loop of MakeTypeToTTConverters from field i on.  `dispatched` lists the
\* fields GetConverterByType was called for, `wrapped` those
\* MakeNullableConverter was called for.
RECURSIVE MakeLoop(_, _, _, _, _, _)
MakeLoop(fac, fmt, i, converters, dispatched, wrapped) ==
    IF i > Len(fmt)
    THEN [isNil |-> FALSE, converters |-> converters, err |-> NoErr,
          dispatched |-> dispatched, wrapped |-> wrapped]
    ELSE LET typ == fmt[i].Type
             byType == GetConverterByType(fac, typ)
             conv == IF fmt[i].IsNullable
                     THEN InvokeMakeNullableConverter(fac, byType.conv)
                     ELSE byType.conv
         IN  IF byType.err # NoErr
             THEN [isNil |-> TRUE, converters |-> <<>>, err |-> byType.err,
                   dispatched |-> Append(dispatched, i), wrapped |-> wrapped]
             ELSE MakeLoop(fac, fmt, i + 1,
                           [converters EXCEPT ![i] = MakeFieldConverter(conv, typ)],
                           Append(dispatched, i),
                           IF fmt[i].IsNullable THEN Append(wrapped, i) ELSE wrapped)

MakeTypeToTTConverters(fac, fmt) ==
    MakeLoop(fac, fmt, 1, [j \in 1..Len(fmt) |-> NilConverter], <<>>, <<>>)

----------------------------------------------------------------------------
(* Mapper *)

\* a *Converter: nil, or the address of a Converter (which may itself be nil)
NilPointer == [isNil |-> TRUE, conv |-> NilConverter]
PointerTo(conv) == [isNil |-> FALSE, conv |-> conv]

MakeMapper(converters) ==
    [converters |-> converters, defaultConverter |-> NilPointer]

WithDefaultConverter(mapper, conv) ==
    [mapper EXCEPT !.defaultConverter = PointerTo(conv)]

ErrTupleLength ==
    Error("tuple length should be less or equal converters list length, when default converter is not used", <<>>)

\* validateTuple with >= for >: a tuple as long as the list is refused
validateTupleStrict(mapper, tuple) ==
    IF Len(tuple) >= Len(mapper.converters) /\ mapper.defaultConverter.isNil
    THEN ErrTupleLength
    ELSE NoErr

validateTuple(mapper, tuple) ==
    IF Len(tuple) > Len(mapper.converters) /\ mapper.defaultConverter.isNil
    THEN ErrTupleLength
    ELSE NoErr

\* Map's choice with the bound one too low: the last listed converter is
\* passed over for the default one
ConverterAtOffByOne(mapper, i) ==
    IF i - 1 < Len(mapper.converters) - 1 THEN mapper.converters[i]
    ELSE mapper.defaultConverter.conv

\* the converter Map applies at position i (1-based: Go's i is one less)
ConverterAt(mapper, i) ==
    IF i - 1 < Len(mapper.converters) THEN mapper.converters[i]
    ELSE mapper.defaultConverter.conv

\* Map's loop returning, on an error, the slice as filled so far
RECURSIVE MapLoopPartial(_, _, _, _, _)
MapLoopPartial(mapper, tuple, i, result, invoked) ==
    IF i > Len(tuple)
    THEN [isNil |-> FALSE, result |-> result, err |-> NoErr, invoked |-> invoked]
    ELSE LET r == Convert(ConverterAt(mapper, i), tuple[i])
         IN  IF r.err # NoErr
             THEN [isNil |-> FALSE, result |-> result, err |-> r.err,
                   invoked |-> Append(invoked, i)]
             ELSE MapLoopPartial(mapper, tuple, i + 1,
                                 [result EXCEPT ![i] = r.val], Append(invoked, i))

\* Map's loop from position i on.  result is the slice made for the whole
\* tuple; `invoked` lists the positions whose converter was called.
RECURSIVE MapLoop(_, _, _, _, _)
MapLoop(mapper, tuple, i, result, invoked) ==
    IF i > Len(tuple)
    THEN [isNil |-> FALSE, result |-> result, err |-> NoErr, invoked |-> invoked]
    ELSE LET r == Convert(ConverterAt(mapper, i), tuple[i])
         IN  IF r.err # NoErr
             THEN [isNil |-> TRUE, result |-> <<>>, err |-> r.err,
                   invoked |-> Append(invoked, i)]
             ELSE MapLoop(mapper, tuple, i + 1, [result EXCEPT ![i] = r.val],
                          Append(invoked, i))

\* isNil: the returned slice is nil; result: its elements
Map(mapper, tuple) ==
    IF validateTuple(mapper, tuple) # NoErr
    THEN [isNil |-> TRUE, result |-> <<>>, err |-> validateTuple(mapper, tuple),
          invoked |-> <<>>]
    ELSE MapLoop(mapper, tuple, 1, [j \in 1..Len(tuple) |-> NilVal], <<>>)

\* Map step by step, on the local variables of one call.  `calls` holds the
\* activations of all callers; a step of caller c reads the Mapper and
\* writes the variables of c's activation.

\* one slice for all activations: the result is stored for every caller
StoreResultShared(cs, c, i, val) ==
    [d \in DOMAIN cs |->
        IF i \in DOMAIN cs[d].result
        THEN [cs[d] EXCEPT !.result[i] = val, !.i = IF d = c THEN i + 1 ELSE @]
        ELSE [cs[d] EXCEPT !.i = IF d = c THEN i + 1 ELSE @]]

\* result[i] = the value converted, result being the slice this call made
StoreResult(cs, c, i, val) ==
    [cs EXCEPT ![c].result[i] = val, ![c].i = i + 1]

Return(cs, c, isNil, result, err, invoked) ==
    [cs EXCEPT ![c].pc = "done",
               ![c].returned = [isNil |-> isNil, result |-> result, err |-> err,
                                invoked |-> invoked]]

\* the call of validateTuple and, when it passes, make([]T, len(tuple))
MapEnter(mapper, cs, c) ==
    IF validateTuple(mapper, cs[c].tuple) # NoErr
    THEN Return(cs, c, TRUE, <<>>, validateTuple(mapper, cs[c].tuple), <<>>)
    ELSE [cs EXCEPT ![c].pc = "loop", ![c].i = 1,
                    ![c].result = [j \in 1..Len(cs[c].tuple) |-> NilVal]]

\* the loop going on after a conversion that failed
MapIterateWithContinue(mapper, cs, c, r) == StoreResult(cs, c, cs[c].i, r.val)

\* what follows the call of Convert, r being what it returned
MapIterateWith(mapper, cs, c, r) ==
    IF r.err # NoErr
    THEN Return(cs, c, TRUE, <<>>, r.err, cs[c].invoked)
    ELSE StoreResult(cs, c, cs[c].i, r.val)

\* the call of Convert at the position of the loop index
CallConverter(cs, c) == [cs EXCEPT ![c].invoked = Append(@, cs[c].i)]

\* one iteration of the loop, or the return after the last one
MapIterate(mapper, cs, c) ==
    IF cs[c].i > Len(cs[c].tuple)
    THEN Return(cs, c, FALSE, cs[c].result, NoErr, cs[c].invoked)
    ELSE MapIterateWith(mapper, CallConverter(cs, c), c,
                        Convert(ConverterAt(mapper, cs[c].i), cs[c].tuple[cs[c].i]))

----------------------------------------------------------------------------
(* Bounds and the inputs the operations are called with *)

MaxLen == 2
MaxConverters == 2
MaxTupleLen == 3
MaxSequenceLen == 3
MaxSeparators == 2
MaxNonZeroFields == 2
MaxFields == 2

Alphabet == {"0", "1", "-", "+", ".", "e", ",", "'"}

Strings(n) == UNION {[1..k -> Alphabet] : k \in 0..n}

\* longer inputs, most of them from the repository's tests
ExtraInputs == {
    Chars("18446744073709551615"), Chars("18446744073709551616"),
    Chars("9223372036854775807"), Chars("9223372036854775808"),
    Chars("+9223372036854775807"), Chars("+9223372036854775808"),
    Chars("-9223372036854775808"), Chars("-9223372036854775809"),
    Chars("1'000"), Chars("-1'0"), Chars("007"), Chars("-00"), Chars("+00"),
    Chars("1e2"), Chars("1.5"), Chars("1,5"), Chars("1.0"), Chars("-.5"),
    Chars("1.447e+44"), Chars("1e999"), Chars("1e-2"), Chars("111'22e333"),
    Chars("inf"), Chars("-Infinity"), Chars("nan"), Chars("+nan"),
    Chars("Infinity"), Chars("notnumberatall"),
    Chars("true"), Chars("false"), Chars("t"), Chars("F"), Chars("truth"),
    Chars("null"), Chars("hello"), Chars(" 1 "),
    Chars("09b56913-11f0-4fa4-b5d0-901b5efa532a"),
    Chars("09B5691311f04fa4b5d0901b5efa532a"),
    Chars("09b56913-11f0-4fa4-b5d0-901b5efa532"),
    Chars("2020-08-22T11:27:43.123456789-0200"),
    Chars("2020-08-22T11:27:43 Europe/Moscow"),
    Chars("2020-08-22T11:27:43 Nowhere"), Chars("2020-08-22"),
    Chars("1,2,3,4,5,6,7,8,1"), Chars("-11,-1110,0,0,0,0,0,1,2"),
    Chars("1,2,3,4,5,6,7,8,3"), Chars("1,2,3"),
    Chars("[1, 2, 3, 4]"), Chars("[1,2,3,"), Chars("[1, {\"a\" : [2,3]}]"),
    Chars("{\"a\":2, \"b\":3, \"c\":{ \"d\":\"str\" }}"), Chars("{1:\"2e5\"}")}

Inputs == Strings(MaxLen) \cup ExtraInputs

NullValues == {defaultNullValue, Chars("1"), Chars("null")}
ThousandSeparators == {defaultThousandSeparators, Chars("'")}
DecimalSeparators == {defaultDecimalSeparators, Chars(",")}

TypeNames == {TypeBoolean, TypeString, TypeInteger, TypeUnsigned, TypeDouble,
              TypeNumber, TypeDecimal, TypeDatetime, TypeUUID, TypeArray,
              TypeMap, TypeVarbinary, TypeScalar, TypeAny, TypeInterval}

\* what GetConverterByType is called with: the type names and two other strings
RequestedTypes == TypeNames \cup {"", "Integer"}

\* the converters of the mapper tests, and the nil Converter
GoInt(n) == [kind |-> "int", n |-> n]
someError == Error("some error", <<>>)
idealMapper == MakeFuncConverter(Closure(<<>>, FALSE, Ok(GoInt(42))))
nonIdealMapper ==
    MakeFuncConverter(Closure(Chars("bad") :> Ret(StrVal(<<>>), someError), TRUE,
                              Ok(NilVal)))
partialSecond ==
    MakeFuncConverter(Closure(Chars("bad") :> Ret(StrVal(<<>>), Error("error", <<>>)),
                              TRUE, Ok(NilVal)))
partialDefault ==
    MakeFuncConverter(Closure(Chars("null") :> Ok(NilVal), TRUE, Ok(NilVal)))

ConverterPool == {idealMapper, nonIdealMapper, partialSecond, partialDefault,
                  NilConverter}

\* for MakeSequenceConverter, also the two converters of a nullable unsigned
SequencePool == ConverterPool \cup {MakeStringToUIntConverter(<<>>),
                                    MakeStringToNullConverter(Chars("null"))}

TupleValues == {Chars("1"), Chars("bad"), Chars("null")}

\* the README's customFactory: the zero StringToTTConvFactory embedded, and a
\* method MakeTypeToAnyMapper returning a converter that returns its input
ZeroStringToTTConvFactory ==
    [type |-> "StringToTTConvFactory", thousandSeparators |-> <<>>,
     decimalSeparators |-> <<>>, nullValue |-> <<>>]
returnsInput == MakeFuncConverter(Closure(<<>>, TRUE, Ok(NilVal)))
customFactory ==
    MakeCustomFactory(ZeroStringToTTConvFactory, "MakeTypeToAnyMapper" :> returnsInput)

\* a factory type embedding the default factory that defines one operation
\* of TTConvFactory itself, returning the same converter
Overriding(operation) ==
    MakeCustomFactory(MakeStringToTTConvFactory, operation :> returnsInput)

OverriddenOperations == {"GetAnyConverter", "GetNumberConverter", "GetStringConverter"}

SchemaFactories ==
    {MakeStringToTTConvFactory, MockTypeToTTConvFactory, customFactory}
        \cup {Overriding(operation) : operation \in OverriddenOperations}

\* the fields of the schemas: five of the type names and two other strings
SchemaTypes == {TypeAny, TypeNumber, TypeInteger, TypeString, TypeUnsigned,
                "fake", "Integer"}
SchemaFields == {SpaceField(typ, isNull) : typ \in SchemaTypes, isNull \in BOOLEAN}
SchemaInputs == {<<>>, Chars("12"), Chars("1.5"), Chars("x")}

\* the separator strings: up to MaxSeparators of these characters
ThousandChars == {"'", "e", "."}
DecimalChars == {".", ",", "'", "1"}
SeparatorInputs == {
    <<>>, Chars("x"), Chars("15"), Chars("1e5"), Chars("1'5"),
    Chars("111'111'111'111"), Chars("111111111111"),
    Chars("12.5"), Chars("12,5"), Chars("12'5"), Chars("1215"), Chars("2.5"),
    Chars("1.2.5"), Chars("1,2.5"), Chars("1,,5")}

\* intervals: up to MaxNonZeroFields fields other than 0, the limits of
\* int64 among them, and each adjust mode
IntervalFieldValues == {IntVal(FALSE, <<"7">>), IntVal(TRUE, <<"1", "1">>),
                        IntVal(FALSE, MaxInt64), IntVal(TRUE, MinInt64Abs)}
IntervalValues ==
    UNION {{IntervalVal([i \in 1..intervalFieldsNumber |->
                            IF i = intervalFieldsNumber THEN a
                            ELSE IF i \in P THEN v[i]
                            ELSE IntVal(FALSE, <<"0">>)]) :
                v \in [P -> IntervalFieldValues], a \in Adjusts} :
           P \in {Q \in SUBSET (1..(intervalFieldsNumber - 1)) :
                      Cardinality(Q) <= MaxNonZeroFields}}
IntervalInputs == {
    <<>>, Chars("1,2,3"), Chars("1,2,3,4,5,6,7,8"), Chars("1,2,3,4,5,6,7,8,9,0"),
    Chars("1,2,3,4,5,6,7,8,1"), Chars("-11,-1110,0,0,0,0,0,1,2"),
    Chars("1,2,3,4,5,6,7,8,3"), Chars("1,2,3,4,5,6,7,8,-1"),
    Chars("1,2,3,4,5,6,7,8,4294967296"), Chars("1,2,3,4,5,6,7,8,02"),
    Chars("+1,02,3,4,5,6,7,8,-0"), Chars("1,,3,4,5,6,7,8,1"),
    Chars("1,2,3,4,5,6,7,8,"), Chars("1.5,2,3,4,5,6,7,8,1"),
    Chars("1, 2,3,4,5,6,7,8,1"), Chars("1,2,3,4,5,6,7,x,1"),
    Chars("9223372036854775807,-9223372036854775808,0,0,0,0,0,0,2"),
    Chars("9223372036854775808,0,0,0,0,0,0,0,0"),
    Chars("0,0,0,0,0,0,0,-9223372036854775809,0")}

\* datetimes: wall clocks about the two transitions of Europe/Paris in 2020,
\* in the zones whose wall clock they can be, and in fixed zones
DatetimeClocks == {
    Clock(2020, 1, 1, 0, 0, 0), Clock(2020, 8, 22, 11, 27, 43),
    Clock(2020, 3, 29, 1, 30, 0), Clock(2020, 3, 29, 2, 30, 0),
    Clock(2020, 3, 29, 3, 30, 0), Clock(2020, 10, 25, 1, 30, 0),
    Clock(2020, 10, 25, 2, 30, 0), Clock(2020, 10, 25, 3, 30, 0)}
DatetimeNsecs == {Chars("000000000"), Chars("123456789"), Chars("000000005"),
                  Chars("500000000")}
FixedOffsets == {0, 0 - 7200, 10800, 19800, offsetMin, offsetMax}
NamedZones == {Chars("UTC"), Chars("Europe/Moscow"), Chars("Europe/Paris")}
DatetimeValues ==
    {DatetimeVal(c, n, NoTimezone, o) :
        c \in DatetimeClocks, n \in DatetimeNsecs, o \in FixedOffsets}
    \cup
    {v \in {DatetimeVal(c, n, z, o) : c \in DatetimeClocks, n \in DatetimeNsecs,
                                      z \in NamedZones, o \in {0, 3600, 7200, 10800}} :
        lookup(v.zone, Instant(v.clock, v.offset)).offset = v.offset}
DatetimeInputs == {
    Chars("2020-08-22T11:27:43.123456789-0200"),
    Chars("2020-08-22T11:27:43 Europe/Moscow"),
    Chars("2020-03-29T02:30:00 Europe/Paris"),
    Chars("2020-10-25T02:30:00 Europe/Paris"),
    Chars("2020-10-25T01:30:00 Europe/Paris"),
    Chars("2020-08-22T11:27:43 Nowhere"), Chars("2020-08-22"),
    Chars("2020-08-22T11:27:43+1500"),
    Chars("2020-08-22T1:27:43+0300"), Chars("2020-08-22T11:27:43,5+0300"),
    Chars("2020-08-22T11:27:43.5 Europe/Paris"), Chars("2020-08-22T11:27:43 "),
    Chars("2020-08-22T11:27:43.123456789-02:00"), Chars("2020-08-22T11:27:43Z"),
    Chars("2020-08-22 Europe/Moscow"), Chars("2023-08-30 11:11:00"),
    Chars("2020-08-22T11:27:43+0300 Europe/Moscow"),
    Chars("2020-08-22T11:27:43 Europe/Moscow UTC"),
    Chars("2020-13-22T11:27:43+0300"), Chars("2021-02-29T00:00:00 UTC"),
    Chars("2020-08-22T24:00:00+0000"), Chars("2020-08-22T11:27:43.+0300")}

SeqsUpTo(S, n) == UNION {[1..k -> S] : k \in 0..n}

----------------------------------------------------------------------------
(* The state machine: one action per operation of the package.  Convert and *)
(* Map change nothing of the converter, the mapper or the factory, so what  *)
(* follows one of them could as well have been done in its place: the       *)
(* behaviours end with such a call.                                         *)

Used == op \in {"Convert", "Map"}

NoGot == [conv |-> NilConverter, err |-> NoErr, invoked |-> <<>>]
NoOut == [val |-> NilVal, err |-> NoErr, invoked |-> <<>>]
NoMapped == [isNil |-> TRUE, result |-> <<>>, err |-> NoErr, invoked |-> <<>>]
NoMade == [isNil |-> TRUE, converters |-> <<>>, err |-> NoErr,
           dispatched |-> <<>>, wrapped |-> <<>>]

\* One call of Map in progress, with the local variables of its activation:
\* where it is, its argument, the index of its loop (from 1), the slice it
\* made, the positions whose converter it has called, and what it returned.
Callers == {"a", "b"}

NoCall == [pc |-> "idle", tuple |-> <<>>, i |-> 0, result |-> <<>>,
           invoked |-> <<>>, returned |-> NoMapped]

\* the tuples of the concurrent callers
CalledTuples == {<<>>, <<Chars("1")>>, <<Chars("bad")>>,
                 <<Chars("1"), Chars("bad")>>, <<Chars("bad"), Chars("1")>>,
                 <<Chars("null"), Chars("1")>>,
                 <<Chars("1"), Chars("1"), Chars("1")>>}

\* no With* call yet
NoWith == [of |-> "none", before |-> NilVal, returned |-> NilVal,
           option |-> "", value |-> NilVal, mappedBy |-> ""]

\* the inputs of the converters got around a With* call, and their types
KeptInputs == {<<>>, Chars("1"), Chars("15"), Chars("1'5"), Chars("1 5"),
               Chars("1,5"), Chars("1.5"), Chars("null")}
KeptTypes == {TypeUnsigned, TypeDouble}

\* the tuples mapped around a WithDefaultConverter call
KeptTuples == {<<>>, <<Chars("1")>>, <<Chars("bad")>>, <<Chars("1"), Chars("1")>>,
               <<Chars("1"), Chars("bad")>>, <<Chars("1"), Chars("1"), Chars("1")>>}

\* the Mapper the callers share
SharedPool == {idealMapper, nonIdealMapper, partialSecond}

InitWith(fac) ==
    /\ factory = fac
    /\ typeName = ""
    /\ got = NoGot
    /\ isNullable = FALSE
    /\ converter = NilConverter
    /\ input = <<>>
    /\ out = NoOut
    /\ mpr = MakeMapper(<<>>)
    /\ tpl = <<>>
    /\ mapped = NoMapped
    /\ spaceFmt = <<>>
    /\ made = NoMade
    /\ field = 0
    /\ given = NilVal
    /\ op = "init"
    /\ list = <<>>
    /\ original = <<>>
    /\ calls = [c \in Callers |-> NoCall]
    /\ withCall = NoWith

Init == \E fac \in {MakeStringToTTConvFactory, MockTypeToTTConvFactory} : InitWith(fac)

\* A With* call gives a new factory; the converter of the old one is dropped.
Reconfigure(fac, name) ==
    /\ ~Used
    /\ ~IsMock(factory)
    /\ factory' = fac
    /\ typeName' = ""
    /\ got' = NoGot
    /\ isNullable' = FALSE
    /\ converter' = NilConverter
    /\ input' = <<>>
    /\ out' = NoOut
    /\ op' = name
    /\ UNCHANGED <<callerVars, mpr, tpl, mapped, schemaVars, given>>

CallWithNullValue ==
    \E v \in NullValues : Reconfigure(WithNullValue(factory, v), "WithNullValue")

CallWithThousandSeparators ==
    \E v \in ThousandSeparators :
        Reconfigure(WithThousandSeparators(factory, v), "WithThousandSeparators")

CallWithDecimalSeparators ==
    \E v \in DecimalSeparators :
        Reconfigure(WithDecimalSeparators(factory, v), "WithDecimalSeparators")

CallGetConverterByType ==
    \E typ \in RequestedTypes :
        /\ ~Used
        /\ typeName' = typ
        /\ got' = GetConverterByType(factory, typ)
        /\ converter' = GetConverterByType(factory, typ).conv
        /\ isNullable' = FALSE
        /\ input' = <<>>
        /\ out' = NoOut
        /\ op' = "GetConverterByType"
        /\ UNCHANGED <<callerVars, factory, mpr, tpl, mapped, schemaVars, given>>

\* as MakeTypeToTTConverters does for a nullable field
CallMakeNullableConverter ==
    /\ op = "GetConverterByType"
    /\ got.err = NoErr
    /\ converter' = MakeNullableConverter(factory, converter)
    /\ isNullable' = TRUE
    /\ op' = "MakeNullableConverter"
    /\ UNCHANGED <<callerVars, factory, typeName, got, input, out, mpr, tpl, mapped, schemaVars, given>>

CallConvert ==
    /\ op \in {"GetConverterByType", "MakeNullableConverter"}
    /\ got.err = NoErr
    /\ \E s \in (IF IsMock(factory) THEN TupleValues ELSE Inputs) :
        /\ input' = s
        /\ out' = Convert(converter, s)
    /\ op' = "Convert"
    /\ UNCHANGED <<callerVars, factory, typeName, got, isNullable, converter, mpr, tpl, mapped, schemaVars, given>>

Next ==
    \/ CallWithNullValue
    \/ CallWithThousandSeparators
    \/ CallWithDecimalSeparators
    \/ CallGetConverterByType
    \/ CallMakeNullableConverter
    \/ CallConvert

Spec == Init /\ [][Next]_vars

\* the Mapper on its own
CallMakeMapper ==
    \E converters \in SeqsUpTo(ConverterPool, MaxConverters) :
        /\ ~Used
        /\ mpr' = MakeMapper(converters)
        /\ tpl' = <<>>
        /\ mapped' = NoMapped
        /\ op' = "MakeMapper"
        /\ UNCHANGED <<callerVars, factory, typeName, got, isNullable, converter, input, out, schemaVars, given>>

CallWithDefaultConverter ==
    \E conv \in ConverterPool :
        /\ ~Used
        /\ mpr' = WithDefaultConverter(mpr, conv)
        /\ tpl' = <<>>
        /\ mapped' = NoMapped
        /\ op' = "WithDefaultConverter"
        /\ UNCHANGED <<callerVars, factory, typeName, got, isNullable, converter, input, out, schemaVars, given>>

CallMap ==
    \E tuple \in SeqsUpTo(TupleValues, MaxTupleLen) :
        /\ ~Used
        /\ tpl' = tuple
        /\ mapped' = Map(mpr, tuple)
        /\ op' = "Map"
        /\ UNCHANGED <<callerVars, factory, typeName, got, isNullable, converter, input, out, mpr, schemaVars, given>>

NextMapper == CallMakeMapper \/ CallWithDefaultConverter \/ CallMap

SpecMapper == InitWith(MakeStringToTTConvFactory) /\ [][NextMapper]_vars

\* MakeSequenceConverter on its own
CallMakeSequenceConverter ==
    \E converters \in SeqsUpTo(SequencePool, MaxSequenceLen) :
        /\ ~Used
        /\ converter' = MakeSequenceConverter(converters)
        /\ input' = <<>>
        /\ out' = NoOut
        /\ op' = "MakeSequenceConverter"
        /\ UNCHANGED <<callerVars, factory, typeName, got, isNullable, mpr, tpl, mapped, schemaVars, given>>

CallSequenceConvert ==
    /\ op = "MakeSequenceConverter"
    /\ \E s \in TupleValues :
        /\ input' = s
        /\ out' = Convert(converter, s)
    /\ op' = "Convert"
    /\ UNCHANGED <<callerVars, factory, typeName, got, isNullable, converter, mpr, tpl, mapped, schemaVars, given>>

NextSequence == CallMakeSequenceConverter \/ CallSequenceConvert

SpecSequence == InitWith(MakeStringToTTConvFactory) /\ [][NextSequence]_vars

\* MakeTypeToTTConverters and the converters it makes.  The call takes
\* nothing from an earlier one, so it is made on the new factory only.
CallMakeTypeToTTConverters ==
    \E fmt \in SeqsUpTo(SchemaFields, MaxFields) :
        /\ op = "init"
        /\ spaceFmt' = fmt
        /\ made' = MakeTypeToTTConverters(factory, fmt)
        /\ field' = 0
        /\ converter' = NilConverter
        /\ input' = <<>>
        /\ out' = NoOut
        /\ op' = "MakeTypeToTTConverters"
        /\ UNCHANGED <<callerVars, factory, typeName, got, isNullable, mpr, tpl, mapped, given>>

CallConvertField ==
    /\ op = "MakeTypeToTTConverters"
    /\ made.err = NoErr
    /\ \E i \in 1..Len(made.converters), s \in SchemaInputs :
        /\ field' = i
        /\ converter' = made.converters[i]
        /\ typeName' = spaceFmt[i].Type
        /\ isNullable' = spaceFmt[i].IsNullable
        /\ input' = s
        /\ out' = Convert(made.converters[i], s)
    /\ op' = "Convert"
    /\ UNCHANGED <<callerVars, factory, got, mpr, tpl, mapped, spaceFmt, made, given>>

NextSchema == CallMakeTypeToTTConverters \/ CallConvertField

SpecSchema ==
    /\ \E fac \in SchemaFactories : InitWith(fac)
    /\ [][NextSchema]_vars

\* the numeric converters under separator strings of any kind
CallWithThousandSeparatorsOf ==
    \E v \in SeqsUpTo(ThousandChars, MaxSeparators) :
        Reconfigure(WithThousandSeparators(factory, v), "WithThousandSeparators")

CallWithDecimalSeparatorsOf ==
    \E v \in SeqsUpTo(DecimalChars, MaxSeparators) :
        Reconfigure(WithDecimalSeparators(factory, v), "WithDecimalSeparators")

CallGetNumericConverter ==
    \E typ \in {TypeUnsigned, TypeDouble} :
        /\ ~Used
        /\ typeName' = typ
        /\ got' = GetConverterByType(factory, typ)
        /\ converter' = GetConverterByType(factory, typ).conv
        /\ isNullable' = FALSE
        /\ input' = <<>>
        /\ out' = NoOut
        /\ op' = "GetConverterByType"
        /\ UNCHANGED <<callerVars, factory, mpr, tpl, mapped, schemaVars, given>>

CallConvertNumeral ==
    /\ op = "GetConverterByType"
    /\ \E s \in SeparatorInputs :
        /\ input' = s
        /\ out' = Convert(converter, s)
    /\ op' = "Convert"
    /\ UNCHANGED <<callerVars, factory, typeName, got, isNullable, converter, mpr, tpl, mapped, schemaVars, given>>

\* the float and decimal converters under separator strings of any kind
CallGetFractionalConverter ==
    \E typ \in {TypeDouble, TypeDecimal} :
        /\ ~Used
        /\ typeName' = typ
        /\ got' = GetConverterByType(factory, typ)
        /\ converter' = GetConverterByType(factory, typ).conv
        /\ isNullable' = FALSE
        /\ input' = <<>>
        /\ out' = NoOut
        /\ op' = "GetConverterByType"
        /\ UNCHANGED <<callerVars, factory, mpr, tpl, mapped, schemaVars, given>>

NextFolding ==
    \/ CallWithThousandSeparatorsOf
    \/ CallWithDecimalSeparatorsOf
    \/ CallGetFractionalConverter
    \/ CallConvertNumeral

SpecFolding == InitWith(MakeStringToTTConvFactory) /\ [][NextFolding]_vars

NextSeparators ==
    \/ CallWithThousandSeparatorsOf
    \/ CallWithDecimalSeparatorsOf
    \/ CallGetNumericConverter
    \/ CallConvertNumeral

SpecSeparators == InitWith(MakeStringToTTConvFactory) /\ [][NextSeparators]_vars

\* the interval converters: a string to an interval, and an interval to a
\* string and back
CallStringToInterval ==
    /\ op = "init"
    /\ \E s \in IntervalInputs :
        /\ input' = s
        /\ out' = Convert(MakeStringToIntervalConverter, s)
    /\ converter' = MakeStringToIntervalConverter
    /\ op' = "Convert"
    /\ UNCHANGED <<callerVars, factory, typeName, got, isNullable, mpr, tpl, mapped, schemaVars, given>>

CallIntervalToString ==
    /\ op = "init"
    /\ \E x \in IntervalValues :
        /\ given' = x
        /\ out' = Convert(MakeIntervalToStringConverter, x)
    /\ converter' = MakeIntervalToStringConverter
    /\ op' = "ToString"
    /\ UNCHANGED <<callerVars, factory, typeName, got, isNullable, input, mpr, tpl, mapped, schemaVars>>

CallIntervalFromString ==
    /\ op = "ToString"
    /\ converter = MakeIntervalToStringConverter
    /\ out.err = NoErr
    /\ input' = out.val.s
    /\ out' = Convert(MakeStringToIntervalConverter, out.val.s)
    /\ converter' = MakeStringToIntervalConverter
    /\ op' = "Convert"
    /\ UNCHANGED <<callerVars, factory, typeName, got, isNullable, mpr, tpl, mapped, schemaVars, given>>

NextInterval ==
    \/ CallStringToInterval
    \/ CallIntervalToString
    \/ CallIntervalFromString

SpecInterval == InitWith(MakeStringToTTConvFactory) /\ [][NextInterval]_vars

\* the datetime converters: a string to a datetime, and a datetime to a
\* string and back
CallStringToDatetime ==
    /\ op = "init"
    /\ \E s \in DatetimeInputs :
        /\ input' = s
        /\ out' = Convert(MakeStringToDatetimeConverter, s)
    /\ converter' = MakeStringToDatetimeConverter
    /\ op' = "Convert"
    /\ UNCHANGED <<callerVars, factory, typeName, got, isNullable, mpr, tpl, mapped, schemaVars, given>>

CallDatetimeToString ==
    /\ op = "init"
    /\ \E x \in DatetimeValues :
        /\ given' = x
        /\ out' = Convert(MakeDatetimeToStringConverter, x)
    /\ converter' = MakeDatetimeToStringConverter
    /\ op' = "ToString"
    /\ UNCHANGED <<callerVars, factory, typeName, got, isNullable, input, mpr, tpl, mapped, schemaVars>>

CallDatetimeFromString ==
    /\ op = "ToString"
    /\ converter = MakeDatetimeToStringConverter
    /\ out.err = NoErr
    /\ input' = out.val.s
    /\ out' = Convert(MakeStringToDatetimeConverter, out.val.s)
    /\ converter' = MakeStringToDatetimeConverter
    /\ op' = "Convert"
    /\ UNCHANGED <<callerVars, factory, typeName, got, isNullable, mpr, tpl, mapped, schemaVars, given>>

NextDatetime ==
    \/ CallStringToDatetime
    \/ CallDatetimeToString
    \/ CallDatetimeFromString

SpecDatetime == InitWith(MakeStringToTTConvFactory) /\ [][NextDatetime]_vars

\* The caller keeps the slice it gave to MakeMapper or MakeSequenceConverter.
\* Both store the slice itself, not a copy of its elements: the array under
\* the caller's slice is the array the Mapper's field, or the closure's
\* captured variable, reads at each call.
HoldsList == IF converter.type = "SequenceConverter" THEN "SequenceConverter"
             ELSE IF op # "init" THEN "Mapper"
             ELSE "none"

CallMakeMapperOf ==
    \E converters \in SeqsUpTo(ConverterPool, MaxConverters) :
        /\ op = "init"
        /\ list' = converters
        /\ original' = converters
        /\ mpr' = MakeMapper(converters)
        /\ op' = "MakeMapper"
        /\ UNCHANGED <<withCall, factory, typeName, got, isNullable, converter, input, out,
                       tpl, mapped, schemaVars, given, calls>>

CallMakeSequenceConverterOf ==
    \E converters \in SeqsUpTo(ConverterPool, MaxConverters) :
        /\ op = "init"
        /\ list' = converters
        /\ original' = converters
        /\ converter' = MakeSequenceConverter(converters)
        /\ op' = "MakeSequenceConverter"
        /\ UNCHANGED <<withCall, factory, typeName, got, isNullable, input, out, mpr, tpl,
                       mapped, schemaVars, given, calls>>

\* the caller's statement converters[i] = conv, once the slice has been given
CallAssignElement ==
    \E i \in 1..Len(list), conv \in ConverterPool :
        /\ op \in {"MakeMapper", "MakeSequenceConverter", "Assign"}
        /\ list' = [list EXCEPT ![i] = conv]
        /\ mpr' = IF HoldsList = "Mapper"
                  THEN [mpr EXCEPT !.converters = [list EXCEPT ![i] = conv]]
                  ELSE mpr
        /\ converter' = IF HoldsList = "SequenceConverter"
                        THEN [converter EXCEPT !.converters = [list EXCEPT ![i] = conv]]
                        ELSE converter
        /\ op' = "Assign"
        /\ UNCHANGED <<withCall, factory, typeName, got, isNullable, input, out, tpl, mapped,
                       schemaVars, given, original, calls>>

CallMapOfList ==
    \E tuple \in SeqsUpTo(TupleValues, MaxConverters) :
        /\ HoldsList = "Mapper"
        /\ ~Used
        /\ tpl' = tuple
        /\ mapped' = Map(mpr, tuple)
        /\ op' = "Map"
        /\ UNCHANGED <<withCall, factory, typeName, got, isNullable, converter, input, out, mpr,
                       schemaVars, given, callerVars>>

CallConvertOfList ==
    \E s \in TupleValues :
        /\ HoldsList = "SequenceConverter"
        /\ ~Used
        /\ input' = s
        /\ out' = Convert(converter, s)
        /\ op' = "Convert"
        /\ UNCHANGED <<withCall, factory, typeName, got, isNullable, converter, mpr, tpl, mapped,
                       schemaVars, given, callerVars>>

NextList ==
    \/ CallMakeMapperOf
    \/ CallMakeSequenceConverterOf
    \/ CallAssignElement
    \/ CallMapOfList
    \/ CallConvertOfList

SpecList == InitWith(MakeStringToTTConvFactory) /\ [][NextList]_vars

\* Several callers run Map on one Mapper at the same time.  The Mapper is
\* made first; each caller then enters Map with a tuple of its own and
\* takes its steps in any interleaving with the others'.
CallMakeShared ==
    \E converters \in SeqsUpTo(SharedPool, MaxConverters),
       withDefault \in BOOLEAN :
        /\ op = "init"
        /\ mpr' = IF withDefault
                  THEN WithDefaultConverter(MakeMapper(converters), partialDefault)
                  ELSE MakeMapper(converters)
        /\ op' = "MakeMapper"
        /\ UNCHANGED <<withCall, factory, typeName, got, isNullable, converter, input, out,
                       tpl, mapped, schemaVars, given, callerVars>>

EnterMap(c) ==
    \E tuple \in CalledTuples :
        /\ op = "MakeMapper"
        /\ calls[c].pc = "idle"
        /\ calls' = MapEnter(mpr, [calls EXCEPT ![c].tuple = tuple], c)
        /\ UNCHANGED <<withCall, factory, typeName, got, isNullable, converter, input, out,
                       mpr, tpl, mapped, schemaVars, given, op, list, original>>

StepMap(c) ==
    /\ calls[c].pc = "loop"
    /\ calls' = MapIterate(mpr, calls, c)
    /\ UNCHANGED <<withCall, factory, typeName, got, isNullable, converter, input, out,
                   mpr, tpl, mapped, schemaVars, given, op, list, original>>

NextConcurrent ==
    \/ CallMakeShared
    \/ \E c \in Callers : EnterMap(c)
    \/ \E c \in Callers : StepMap(c)

SpecConcurrent == InitWith(MakeStringToTTConvFactory) /\ [][NextConcurrent]_vars

\* the With* methods called with the result kept beside the receiver:
\* f2 := f.With...(x) and m2 := m.WithDefaultConverter(d)
WithOption(fac, option, v) ==
    IF option = "nullValue" THEN WithNullValue(fac, v)
    ELSE IF option = "thousandSeparators" THEN WithThousandSeparators(fac, v)
    ELSE WithDecimalSeparators(fac, v)

OptionValues(option) ==
    IF option = "nullValue" THEN NullValues
    ELSE IF option = "thousandSeparators" THEN ThousandSeparators
    ELSE DecimalSeparators

KeepResult(of, before, call, option, v) ==
    withCall' = [of |-> of, before |-> before, returned |-> call.returned,
                 option |-> option, value |-> v, mappedBy |-> ""]

CallWithOptionKept ==
    \E option \in {"nullValue", "thousandSeparators", "decimalSeparators"} :
        \E v \in OptionValues(option) :
            /\ ~Used
            /\ withCall.of # "mapper"
            /\ mpr = MakeMapper(<<>>)
            /\ factory' = ValueReceiver(factory, WithOption(factory, option, v)).receiver
            /\ KeepResult("factory", factory,
                          ValueReceiver(factory, WithOption(factory, option, v)), option, v)
            /\ op' = "With"
            /\ UNCHANGED <<list, original, calls, typeName, got, isNullable, converter,
                           input, out, mpr, tpl, mapped, schemaVars, given>>

CallWithDefaultConverterKept ==
    \E conv \in SharedPool :
        /\ ~Used
        /\ withCall.of # "factory"
        /\ got = NoGot
        /\ factory = MakeStringToTTConvFactory
        /\ mpr' = ValueReceiver(mpr, WithDefaultConverter(mpr, conv)).receiver
        /\ KeepResult("mapper", mpr,
                      ValueReceiver(mpr, WithDefaultConverter(mpr, conv)),
                      "defaultConverter", conv)
        /\ op' = "WithDefaultConverter"
        /\ UNCHANGED <<list, original, calls, factory, typeName, got, isNullable,
                       converter, input, out, tpl, mapped, schemaVars, given>>

\* m := MakeMapper(converters)
CallMakeReceiver ==
    \E converters \in SeqsUpTo(SharedPool, MaxConverters) :
        /\ ~Used
        /\ withCall.of = "none"
        /\ got = NoGot
        /\ factory = MakeStringToTTConvFactory
        /\ mpr' = MakeMapper(converters)
        /\ op' = "MakeMapper"
        /\ UNCHANGED <<callerVars, factory, typeName, got, isNullable, converter,
                       input, out, tpl, mapped, schemaVars, given>>

\* f = f2, m = m2
CallAssignReturned ==
    /\ ~Used
    /\ withCall.of # "none"
    /\ got = NoGot
    /\ factory' = IF withCall.of = "factory" THEN withCall.returned ELSE factory
    /\ mpr' = IF withCall.of = "mapper" THEN withCall.returned ELSE mpr
    /\ withCall' = NoWith
    /\ op' = "assign"
    /\ UNCHANGED <<list, original, calls, typeName, got, isNullable, converter,
                   input, out, tpl, mapped, schemaVars, given>>

\* a converter of f, got before the With* call or after it
CallGetConverterKept ==
    \E typ \in KeptTypes, nullable \in BOOLEAN :
        /\ ~Used
        /\ withCall.of # "mapper"
        /\ mpr = MakeMapper(<<>>)
        /\ got = NoGot
        /\ typeName' = typ
        /\ got' = GetConverterByType(factory, typ)
        /\ converter' = IF nullable
                        THEN MakeNullableConverter(factory, GetConverterByType(factory, typ).conv)
                        ELSE GetConverterByType(factory, typ).conv
        /\ isNullable' = nullable
        /\ op' = "GetConverterByType"
        /\ UNCHANGED <<callerVars, factory, input, out, mpr, tpl, mapped, schemaVars, given>>

CallConvertKept ==
    /\ ~Used
    /\ withCall.of = "factory"
    /\ got # NoGot
    /\ \E s \in KeptInputs :
        /\ input' = s
        /\ out' = Convert(converter, s)
    /\ op' = "Convert"
    /\ UNCHANGED <<callerVars, factory, typeName, got, isNullable, converter, mpr,
                   tpl, mapped, schemaVars, given>>

\* m.Map(tuple) or m2.Map(tuple)
CallMapKept ==
    \E tuple \in KeptTuples, by \in {"m", "m2"} :
        /\ ~Used
        /\ withCall.of = "mapper"
        /\ tpl' = tuple
        /\ mapped' = Map(IF by = "m" THEN mpr ELSE withCall.returned, tuple)
        /\ withCall' = [withCall EXCEPT !.mappedBy = by]
        /\ op' = "Map"
        /\ UNCHANGED <<list, original, calls, factory, typeName, got, isNullable,
                       converter, input, out, mpr, schemaVars, given>>

NextKept ==
    \/ CallWithOptionKept
    \/ CallWithDefaultConverterKept
    \/ CallMakeReceiver
    \/ CallAssignReturned
    \/ CallGetConverterKept
    \/ CallConvertKept
    \/ CallMapKept

SpecKept == InitWith(MakeStringToTTConvFactory) /\ [][NextKept]_vars

----------------------------------------------------------------------------
(* Properties of Mapper.Map, under SpecMapper *)

\* the converter the documentation gives position i (0-based, as in Go)
DocumentedConverter(i) ==
    IF i < Len(mpr.converters) THEN mpr.converters[i + 1]
    ELSE mpr.defaultConverter.conv

Positions == 0..(Len(tpl) - 1)

\* what the converter of position i returns for the tuple's element
Conversion(i) == Convert(DocumentedConverter(i), tpl[i + 1])

\* an error is returned (a panic returns nothing)
ReturnsError(o) == o.err # NoErr /\ ~Panicked(o)

\* C1: whenever Map succeeds, the result has len(tuple) elements, and its
\* element i is what converters[i] (for i < len(converters)) or else the
\* default converter returns for tuple[i]; so for the empty tuple and for a
\* tuple shorter than the converter list.
MapElementwise ==
    (op = "Map" /\ mapped.err = NoErr) =>
        /\ ~mapped.isNil
        /\ Len(mapped.result) = Len(tpl)
        /\ \A i \in Positions :
            /\ Conversion(i).err = NoErr
            /\ mapped.result[i + 1] = Conversion(i).val

\* a tuple longer than a non-empty converter list is mapped, the default
\* converter turning its last element into nil
MapElementwiseReached ==
    /\ op = "Map" /\ mapped.err = NoErr
    /\ Len(mpr.converters) > 0
    /\ Len(tpl) > Len(mpr.converters)
    /\ mapped.result[1] = GoInt(42)
    /\ mapped.result[Len(tpl)] = NilVal

\* C2, as amended: without a default converter Map returns the length error
\* if and only if len(tuple) > N, and with a default converter it never
\* returns that error; a tuple of fitting length may still fail to convert.
MapLengthLaw ==
    op = "Map" =>
        IF mpr.defaultConverter.isNil
        THEN (mapped.err = ErrTupleLength) <=> (Len(tpl) > Len(mpr.converters))
        ELSE mapped.err # ErrTupleLength

\* a tuple no longer than the list fails, but not for its length
MapLengthLawReached ==
    /\ op = "Map"
    /\ mpr.defaultConverter.isNil
    /\ Len(tpl) = Len(mpr.converters)
    /\ mapped.err = someError

\* C2, as stated: without a default converter Map fails if and only if
\* len(tuple) > N.
MapFailsOnlyForLength ==
    (op = "Map" /\ mpr.defaultConverter.isNil) =>
        (ReturnsError(mapped) <=> (Len(tpl) > Len(mpr.converters)))

\* C3: when the first conversion that does not succeed returns an error, Map
\* returns a nil slice and that very error.
MapFailFast ==
    LET failing == {i \in Positions : Conversion(i).err # NoErr}
        lowest == CHOOSE i \in failing : \A j \in failing : i <= j
    IN  (/\ op = "Map"
         /\ Len(tpl) <= Len(mpr.converters) \/ ~mpr.defaultConverter.isNil
         /\ failing # {}
         /\ ReturnsError(Conversion(lowest))) =>
            /\ mapped.isNil
            /\ mapped.result = <<>>
            /\ mapped.err = Conversion(lowest).err

\* two positions fail with different errors, after one that succeeds
MapFailFastReached ==
    /\ op = "Map"
    /\ Len(tpl) = 3
    /\ Conversion(0).err = NoErr
    /\ ReturnsError(Conversion(1))
    /\ ReturnsError(Conversion(2))
    /\ Conversion(1).err # Conversion(2).err
    /\ mapped.isNil
    /\ mapped.err = Conversion(1).err

----------------------------------------------------------------------------
(* Properties of MakeSequenceConverter, under SpecSequence *)

\* C4: a sequence converter over converters none of which is nil returns the
\* value of the first one that returns no error, invoking none after it; it
\* fails exactly when all of them fail, so for the empty list.
SequenceFirstSuccess ==
    (op = "Convert" /\ converter.type = "SequenceConverter") =>
        LET converters == converter.converters
            succeeding == {i \in 1..Len(converters) :
                              Convert(converters[i], input).err = NoErr}
        IN  (\A i \in 1..Len(converters) : converters[i] # NilConverter) =>
                /\ (out.err # NoErr) <=> (succeeding = {})
                /\ converters = <<>> => out.err # NoErr
                /\ \A i \in succeeding :
                    (\A j \in succeeding : i <= j) =>
                        /\ out.val = Convert(converters[i], input).val
                        /\ out.invoked = [k \in 1..i |-> k]

\* the second of three converters is the first to succeed, with nil, where
\* the third would have given another value
SequenceFirstSuccessReached ==
    /\ op = "Convert" /\ converter.type = "SequenceConverter"
    /\ Len(converter.converters) = 3
    /\ \A i \in 1..3 : converter.converters[i] # NilConverter
    /\ Convert(converter.converters[1], input).err # NoErr
    /\ Convert(converter.converters[3], input) = Ok(GoInt(42))
    /\ out = [val |-> NilVal, err |-> NoErr, invoked |-> <<1, 2>>]

----------------------------------------------------------------------------
(* Properties of the converters of StringToTTConvFactory, under Spec *)

IsStringFactory == factory.type = "StringToTTConvFactory"

\* a Convert call on the converter GetConverterByType gave for typ
Converted(typ) ==
    op = "Convert" /\ IsStringFactory /\ typeName = typ /\ ~isNullable

AnyScalarOrder ==
    (Converted("any") \/ Converted("scalar")) =>
        LET order == <<GetNumberConverter(factory), GetDecimalConverter(factory),
                       GetBooleanConverter(factory), GetDatetimeConverter(factory),
                       GetUUIDConverter(factory), GetIntervalConverter(factory),
                       GetStringConverter(factory)>>
            accepting == {i \in 1..7 : Convert(order[i], input).err = NoErr}
        IN  /\ \A i \in accepting :
                (\A j \in accepting : i <= j) =>
                    /\ out.err = NoErr
                    /\ out.val = Convert(order[i], input).val
                    /\ out.invoked = [k \in 1..i |-> k]
            /\ Convert(GetAnyConverter(factory), input)
                   = Convert(GetScalarConverter(factory), input)
            /\ Convert(GetAnyConverter(factory), input) = out

\* "1", which the boolean converter accepts too, becomes an unsigned integer
AnyScalarOrderReached ==
    /\ Converted("any")
    /\ input = <<"1">>
    /\ ParseBool(input).err = NoErr
    /\ out.val = UintVal(<<"1">>)

\* C7: any and scalar, nullable or not, never return an error.
AnyScalarTotal ==
    (op = "Convert" /\ IsStringFactory /\ typeName \in {"any", "scalar"}) =>
        out.err = NoErr

\* an input that only the string converter accepts
AnyScalarTotalReached ==
    /\ Converted("scalar")
    /\ input = <<"-">>
    /\ out = [val |-> StrVal(input), err |-> NoErr, invoked |-> <<1, 2, 3, 4, 5, 6, 7>>]

\* the input without the thousand separators
Stripped ==
    LET Kept(c) == \A k \in 1..Len(factory.thousandSeparators) :
                       factory.thousandSeparators[k] # c
    IN  SelectSeq(input, Kept)

\* decimal digits, and decimal digits after a sign
IsUnsignedNumeral(s) == s # <<>> /\ IsDigits(s)
IsSignedNumeral(s) == Len(s) >= 2 /\ s[1] \in {"+", "-"} /\ IsDigits(Tail(s))
IsIntegerNumeral(s) == IsUnsignedNumeral(s) \/ IsSignedNumeral(s)

\* the digits of the absolute value of an integer numeral
Magnitude(s) == StripZeros(IF IsSignedNumeral(s) THEN Tail(s) ELSE s)

\* the integer a numeral denotes is negative, or is not
DenotesNegative(s) ==
    IsSignedNumeral(s) /\ s[1] = "-" /\ Magnitude(s) # <<"0">>
DenotesNonNegative(s) == IsIntegerNumeral(s) /\ ~DenotesNegative(s)

\* a signed numeral of a value within -2^63..2^63-1
FitsInt64(s) ==
    /\ IsSignedNumeral(s)
    /\ DigitsLE(Magnitude(s), IF s[1] = "-" THEN Chars("9223372036854775808")
                              ELSE Chars("9223372036854775807"))

\* an unsigned numeral of a value within 0..2^64-1
FitsUint64(s) ==
    IsUnsignedNumeral(s) /\ DigitsLE(Magnitude(s), Chars("18446744073709551615"))

IsUint64(o, digits) ==
    o.err = NoErr /\ o.val.kind = "uint64" /\ o.val.digits = digits
IsInt64(o, digits) ==
    o.err = NoErr /\ o.val.kind = "int64" /\ o.val.digits = digits
IsFloat64(o) == o.err = NoErr /\ o.val.kind = "float64"

\* C8, as amended: the number converter makes an unsigned 64-bit value of
\* unsigned digits of a value up to 2^64-1, a signed 64-bit value of digits
\* after a sign ("-" or "+") of a value within -2^63..2^63-1, whether
\* negative or not ("-0", "+1"), and of every other input a float or an
\* error: so a float of an integer outside these ranges.
NumberFirstFit ==
    Converted("number") =>
        /\ FitsUint64(Stripped) => IsUint64(out, Magnitude(Stripped))
        /\ FitsInt64(Stripped) => IsInt64(out, Magnitude(Stripped))
        /\ (~FitsUint64(Stripped) /\ ~FitsInt64(Stripped)) =>
               (out.err # NoErr \/ IsFloat64(out))

\* a non-negative integer that becomes a signed value
NumberFirstFitReached ==
    /\ Converted("number")
    /\ input = <<"+", "1">>
    /\ out.val = IntVal(FALSE, <<"1">>)
    /\ out.err = NoErr

\* an integer above 2^64-1 becomes a float
NumberFloatOfInteger ==
    /\ Converted("number")
    /\ input = Chars("18446744073709551616")
    /\ IsFloat64(out)

\* C8, as stated: a non-negative integer becomes an unsigned 64-bit value, a
\* negative one a signed 64-bit value, and any other numeral a float.
NumberNarrowestFit ==
    Converted("number") =>
        /\ DenotesNonNegative(Stripped) => (out.err = NoErr /\ out.val.kind = "uint64")
        /\ DenotesNegative(Stripped) => (out.err = NoErr /\ out.val.kind = "int64")
        /\ (~IsIntegerNumeral(Stripped) /\ out.err = NoErr) => out.val.kind = "float64"

\* C9, as amended: the integer converter makes an unsigned value of unsigned
\* digits of a value within 0..2^64-1, a signed value of digits after a sign
\* of a value within -2^63..2^63-1 ("+1" and "-0" among them), and an error
\* of every other input, so of every input the number converter makes a
\* float of.
IntegerNoFloat ==
    Converted("integer") =>
        /\ FitsUint64(Stripped) => IsUint64(out, Magnitude(Stripped))
        /\ FitsInt64(Stripped) => IsInt64(out, Magnitude(Stripped))
        /\ (~FitsUint64(Stripped) /\ ~FitsInt64(Stripped)) => out.err # NoErr
        /\ IsFloat64(Convert(GetNumberConverter(factory), input)) => out.err # NoErr

\* zero written with a minus sign becomes a signed value
IntegerNoFloatReached ==
    /\ Converted("integer")
    /\ input = <<"-", "0">>
    /\ IsInt64(out, <<"0">>)

\* a fraction, which the number converter makes a float of, is refused
IntegerRefusesFraction ==
    /\ Converted("integer")
    /\ input = Chars("1.5")
    /\ IsFloat64(Convert(GetNumberConverter(factory), input))
    /\ out.err # NoErr

\* C9, as stated: an unsigned value for inputs in 0..2^64-1, a signed value
\* for inputs in -2^63..-1, an error for every other input.
IntegerByRange ==
    Converted("integer") =>
        LET inUnsigned == /\ DenotesNonNegative(Stripped)
                          /\ DigitsLE(Magnitude(Stripped), Chars("18446744073709551615"))
            inSigned == /\ DenotesNegative(Stripped)
                        /\ DigitsLE(Magnitude(Stripped), Chars("9223372036854775808"))
        IN  /\ inUnsigned => (out.err = NoErr /\ out.val.kind = "uint64")
            /\ inSigned => (out.err = NoErr /\ out.val.kind = "int64")
            /\ (~inUnsigned /\ ~inSigned) => out.err # NoErr

----------------------------------------------------------------------------
(* Properties of GetConverterByType, under Spec *)

\* the factory operation documented for each type name
DocumentedOperation ==
    [boolean |-> "GetBooleanConverter", string |-> "GetStringConverter",
     integer |-> "GetIntegerConverter", unsigned |-> "GetUnsignedConverter",
     double |-> "GetDoubleConverter", number |-> "GetNumberConverter",
     decimal |-> "GetDecimalConverter", datetime |-> "GetDatetimeConverter",
     uuid |-> "GetUUIDConverter", array |-> "GetArrayConverter",
     map |-> "GetMapConverter", varbinary |-> "GetVarbinaryConverter",
     scalar |-> "GetScalarConverter", any |-> "GetAnyConverter",
     interval |-> "GetIntervalConverter"]

\* C10: for each of the 15 type names GetConverterByType invokes the factory
\* operation of that name, that one only, and returns its converter and no
\* error; for another name it returns no converter and an error, and invokes
\* nothing.
DispatchByName ==
    op = "GetConverterByType" =>
        IF typeName \in DOMAIN DocumentedOperation
        THEN /\ got.err = NoErr
             /\ got.invoked = <<DocumentedOperation[typeName]>>
             /\ got.conv = Invoke(factory, DocumentedOperation[typeName])
             /\ IsMock(factory) =>
                    Convert(got.conv, <<>>) = Ok(StrVal(Chars(typeName)))
        ELSE /\ got.conv = NilConverter
             /\ got.err # NoErr
             /\ got.invoked = <<>>

\* the mock factory is asked for scalar, and its scalar converter is returned
DispatchByNameReached ==
    /\ op = "GetConverterByType"
    /\ IsMock(factory)
    /\ typeName = "scalar"
    /\ got.err = NoErr
    /\ got.invoked = <<"GetScalarConverter">>
    /\ Convert(got.conv, <<>>) = Ok(StrVal(Chars("scalar")))

\* a name outside the 15 is refused
DispatchRefused ==
    /\ op = "GetConverterByType"
    /\ typeName = "Integer"
    /\ got.conv = NilConverter
    /\ got.err = ErrUnexpectedType("Integer")

----------------------------------------------------------------------------
(* Properties of MakeTypeToTTConverters, under SpecSchema *)

\* the converter documented for a field: that of the factory operation of
\* its type, wrapped by the factory's MakeNullableConverter if it is nullable
DocumentedFieldConverter(f) ==
    LET conv == Invoke(factory, DocumentedOperation[f.Type])
    IN  IF f.IsNullable THEN InvokeMakeNullableConverter(factory, conv) ELSE conv

Nullables(fmt) == {i \in 1..Len(fmt) : fmt[i].IsNullable}

Range(seq) == {seq[i] : i \in 1..Len(seq)}

\* C11: when MakeTypeToTTConverters succeeds the list is as long as the
\* schema, and its i-th converter is made of the converter of field i's type,
\* wrapped by MakeNullableConverter if and only if field i is nullable.
ConvertersBySchema ==
    (op = "MakeTypeToTTConverters" /\ made.err = NoErr) =>
        /\ ~made.isNil
        /\ Len(made.converters) = Len(spaceFmt)
        /\ \A i \in 1..Len(spaceFmt) :
            /\ made.converters[i].typ = spaceFmt[i].Type
            /\ made.converters[i].conv = DocumentedFieldConverter(spaceFmt[i])
        /\ Range(made.wrapped) = Nullables(spaceFmt)

\* two fields of different types, the second one alone nullable
ConvertersBySchemaReached ==
    /\ op = "MakeTypeToTTConverters" /\ made.err = NoErr
    /\ factory = MakeStringToTTConvFactory
    /\ spaceFmt = <<SpaceField("unsigned", FALSE), SpaceField("string", TRUE)>>
    /\ made.converters[1].conv = MakeStringToUIntConverter(<<>>)
    /\ made.converters[2].conv =
           MakeSequenceConverter(<<MakeStringToNullConverter(<<>>), MakeIdentityConverter>>)

\* C12: when a field has a type name outside the 15, MakeTypeToTTConverters
\* returns a nil list and the dispatch error of the first such field, having
\* dispatched the fields up to it and wrapped only nullable fields before it.
SchemaFailFast ==
    LET unknown == {i \in 1..Len(spaceFmt) :
                       spaceFmt[i].Type \notin DOMAIN DocumentedOperation}
    IN  (op = "MakeTypeToTTConverters" /\ unknown # {}) =>
            \A i \in unknown :
                (\A j \in unknown : i <= j) =>
                    /\ made.isNil
                    /\ made.converters = <<>>
                    /\ made.err = ErrUnexpectedType(spaceFmt[i].Type)
                    /\ made.dispatched = [k \in 1..i |-> k]
                    /\ Range(made.wrapped) = {k \in Nullables(spaceFmt) : k < i}

\* the first of two unknown types is reported, and the nullable field after
\* it is neither dispatched nor wrapped
SchemaFailFastReached ==
    /\ op = "MakeTypeToTTConverters"
    /\ spaceFmt = <<SpaceField("fake", FALSE), SpaceField("Integer", TRUE)>>
    /\ made.isNil
    /\ made.err = ErrUnexpectedType("fake")
    /\ made.dispatched = <<1>>
    /\ made.wrapped = <<>>

\* C13: a converter of the list returns, when the converter it is made of
\* fails, nil and an error of the input and the field's type name in place of
\* that converter's error, and otherwise that converter's value.
FieldErrorUniform ==
    (op = "Convert" /\ field > 0) =>
        LET base == Convert(DocumentedFieldConverter(spaceFmt[field]), input)
        IN  IF base.err # NoErr
            THEN /\ out.val = NilVal
                 /\ out.err = ErrUnexpectedValueForType(input, spaceFmt[field].Type)
            ELSE out.val = base.val /\ out.err = NoErr

\* the unsigned converter's syntax error is replaced
FieldErrorUniformReached ==
    /\ op = "Convert" /\ field = 2
    /\ spaceFmt[2] = SpaceField("unsigned", FALSE)
    /\ input = <<"x">>
    /\ Convert(made.converters[2].conv, input).err = ErrSyntax
    /\ out.val = NilVal
    /\ out.err = ErrUnexpectedValueForType(<<"x">>, "unsigned")

----------------------------------------------------------------------------
(* Properties of factories embedding StringToTTConvFactory, under SpecSchema *)

\* the converter documented for a type name and a factory that substitutes
\* its own converter for some operations of the factory it embeds
DocumentedSubstitute(typ) ==
    IF DocumentedOperation[typ] \in DOMAIN factory.methods
    THEN factory.methods[DocumentedOperation[typ]]
    ELSE GetConverterByType(factory.embedded, typ).conv

\* C14: with a factory that embeds the default factory and defines one type
\* operation of its own, GetConverterByType and MakeTypeToTTConverters give
\* the substituted converter for that type and the default's converter for
\* the 14 others, and the default's composites keep the default's parts.
SelectiveOverride ==
    (IsCustom(factory) /\ op # "init") =>
        /\ \A typ \in DOMAIN DocumentedOperation :
            /\ GetConverterByType(factory, typ).err = NoErr
            /\ GetConverterByType(factory, typ).conv = DocumentedSubstitute(typ)
        /\ made.err = NoErr =>
            \A i \in 1..Len(spaceFmt) :
                made.converters[i].conv =
                    IF spaceFmt[i].IsNullable
                    THEN MakeNullableConverter(factory.embedded,
                                               DocumentedSubstitute(spaceFmt[i].Type))
                    ELSE DocumentedSubstitute(spaceFmt[i].Type)
        /\ \A typ \in {"any", "scalar"} :
            DocumentedOperation[typ] \notin DOMAIN factory.methods =>
                GetConverterByType(factory, typ).conv.converters =
                    <<GetNumberConverter(factory.embedded),
                      GetDecimalConverter(factory.embedded),
                      GetBooleanConverter(factory.embedded),
                      GetDatetimeConverter(factory.embedded),
                      GetUUIDConverter(factory.embedded),
                      GetIntervalConverter(factory.embedded),
                      GetStringConverter(factory.embedded)>>

\* number is substituted: "12" stays a string as a number and becomes an
\* unsigned value as an any, whose first part is the default's number
SelectiveOverrideReached ==
    /\ factory = Overriding("GetNumberConverter")
    /\ op = "Convert" /\ field = 2
    /\ spaceFmt = <<SpaceField("number", TRUE), SpaceField("any", FALSE)>>
    /\ made.converters[1].conv =
           MakeSequenceConverter(<<MakeStringToNullConverter(<<>>), returnsInput>>)
    /\ Convert(made.converters[1], <<"1", "2">>).val = StrVal(<<"1", "2">>)
    /\ made.converters[2].conv.converters[1] =
           GetNumberConverter(MakeStringToTTConvFactory)
    /\ input = <<"1", "2">>
    /\ out.val = UintVal(<<"1", "2">>)

\* C15: with the README's customFactory, the converter MakeTypeToTTConverters
\* makes for a field of type any converts every input to a string, "12" to
\* the string "12".
CustomAnyToString ==
    (/\ factory = customFactory
     /\ op = "Convert"
     /\ spaceFmt[field] = SpaceField("any", FALSE)) =>
        out = Ok(StrVal(input))

\* what the example's call returns: the unsigned value 12
CustomAnyOfDigits ==
    /\ factory = customFactory
    /\ op = "Convert" /\ field = 1
    /\ spaceFmt = <<SpaceField("any", FALSE)>>
    /\ input = <<"1", "2">>
    /\ out = Ok(UintVal(<<"1", "2">>))

----------------------------------------------------------------------------
(* Properties of the separators, under SpecSeparators *)

InsertAt(s, p, c) == SubSeq(s, 1, p) \o <<c>> \o SubSeq(s, p + 1, Len(s))

\* C16: inserting configured thousand separators anywhere into the input
\* leaves what the unsigned converter returns unchanged, value or error:
\* each separator character is removed wherever it stands.
ThousandSeparatorInvariance ==
    Converted("unsigned") =>
        /\ out = ParseUint(Stripped)
        /\ \A c \in Range(factory.thousandSeparators) :
            \A p \in 0..Len(input) :
                /\ Convert(converter, InsertAt(input, p, c)) = out
                /\ \A d \in Range(factory.thousandSeparators) :
                    \A q \in {p, Len(input) + 1} :
                        Convert(converter, InsertAt(InsertAt(input, p, c), q, d)) = out

\* with the separators ' and e, "1e5" is 15
ThousandSeparatorInvarianceReached ==
    /\ Converted("unsigned")
    /\ factory.thousandSeparators = <<"'", "e">>
    /\ input = <<"1", "e", "5">>
    /\ out = Ok(UintVal(<<"1", "5">>))
    /\ Convert(converter, Chars("15")) = out
    /\ Convert(converter, Chars("'1e'5e")) = out

\* with the separator ', "111'111'111'111" is 111111111111
ThousandSeparatorGroups ==
    /\ Converted("unsigned")
    /\ factory.thousandSeparators = <<"'">>
    /\ input = Chars("111'111'111'111")
    /\ out = Ok(UintVal(Chars("111111111111")))

\* the input after the float converter's two replacements
Folded ==
    LET point(c) == IF c \in Range(factory.decimalSeparators) THEN "." ELSE c
    IN  [i \in 1..Len(Stripped) |-> point(Stripped[i])]

Points(s) == Cardinality({i \in 1..Len(s) : s[i] = "."})

TwelveAndAHalf == Ok(FloatVal("finite", FALSE, <<"1", "2", "5">>, -1))
TwoAndAHalf == Ok(FloatVal("finite", FALSE, <<"2", "5">>, -1))

\* no digit of the numeral and not its separator is removed as a thousand
\* separator, and no digit of it is a decimal separator
NumeralKept(digits, point) ==
    /\ Range(factory.thousandSeparators) \cap (digits \cup {point}) = {}
    /\ Range(factory.decimalSeparators) \cap digits = {}

\* C17: for a configured decimal separator d that is not a thousand separator,
\* with no digit of the numeral a separator of either kind, the float
\* converter maps "12.5" written with d to 12.5; "2.5" is 2.5 whether or not
\* '.' is configured, unless '.' is a thousand separator; and an input with
\* more than one point after the replacements is an error.
DecimalFoldingOfKept ==
    Converted("double") =>
        /\ \A d \in Range(factory.decimalSeparators) :
            (input = <<"1", "2", d, "5">> /\ NumeralKept({"1", "2", "5"}, d)) =>
                out = TwelveAndAHalf
        /\ (input = Chars("2.5") /\ NumeralKept({"2", "5"}, ".")) => out = TwoAndAHalf
        /\ Points(Folded) > 1 => (out.err # NoErr /\ out.err # Panic)

\* the separators are , and ' and not the point: "12'5" is 12.5
DecimalFoldingOfKeptReached ==
    /\ Converted("double")
    /\ factory.thousandSeparators = <<>>
    /\ factory.decimalSeparators = <<",", "'">>
    /\ input = Chars("12'5")
    /\ out = TwelveAndAHalf
    /\ Convert(converter, Chars("2.5")) = TwoAndAHalf
    /\ Convert(converter, Chars("1,2.5")).err = ErrSyntax

\* C17 as stated: for every configured decimal separator d the float converter
\* maps "12.5" written with d to 12.5, "2.5" is always 2.5, and an input with
\* more than one point after the replacements is an error.
DecimalFolding ==
    Converted("double") =>
        /\ \A d \in Range(factory.decimalSeparators) :
            input = <<"1", "2", d, "5">> => out = TwelveAndAHalf
        /\ input = Chars("2.5") => out = TwoAndAHalf
        /\ Points(Folded) > 1 => (out.err # NoErr /\ out.err # Panic)

\* ' is both a thousand and a decimal separator: "12'5" is 125
DecimalSeparatorStripped ==
    /\ Converted("double")
    /\ factory.thousandSeparators = <<"'">>
    /\ factory.decimalSeparators = <<"'">>
    /\ input = Chars("12'5")
    /\ out = Ok(FloatVal("finite", FALSE, <<"1", "2", "5">>, 0))

\* 1 is a decimal separator: "1215" is ".2.5", an error
DecimalSeparatorDigit ==
    /\ Converted("double")
    /\ factory.thousandSeparators = <<>>
    /\ factory.decimalSeparators = <<"1">>
    /\ input = Chars("1215")
    /\ out.err = ErrSyntax

----------------------------------------------------------------------------
(* Properties of the interval converters, under SpecInterval *)

\* a decimal integer, with or without sign, within -2^63..2^63-1
InInt64(s) ==
    /\ IsIntegerNumeral(s)
    /\ DigitsLE(Magnitude(s), IF s[1] = "-" THEN Chars("9223372036854775808")
                              ELSE Chars("9223372036854775807"))

\* the int64 an integer numeral denotes
Denoted(s) == IntVal(DenotesNegative(s), Magnitude(s))

\* C18: the interval converter succeeds exactly when the input is 9 parts
\* between commas, each a decimal integer of 64 bits, the ninth 0, 1 or 2;
\* year, month, week, day, hour, min, sec, nsec and adjust are then the
\* parts in this order; every other input fails with one and the same error.
IntervalOfNineParts ==
    (op = "Convert" /\ converter = MakeStringToIntervalConverter) =>
        LET parts == Split(input, ",")
            wellFormed ==
                /\ Cardinality({i \in 1..Len(input) : input[i] = ","}) = 8
                /\ \A i \in 1..Len(parts) : InInt64(parts[i])
                /\ Magnitude(parts[9]) \in {<<"0">>, <<"1">>, <<"2">>}
                /\ ~DenotesNegative(parts[9])
        IN  IF wellFormed
            THEN /\ out.err = NoErr
                 /\ out.val.kind = "interval"
                 /\ \A i \in 1..9 : out.val.fields[i] = Denoted(parts[i])
            ELSE out = Ret(NilVal, errUnexpectedIntervalFmt)

\* the parts go to the fields in their order
IntervalOfNinePartsReached ==
    /\ op = "Convert" /\ given = NilVal
    /\ input = Chars("-11,-1110,0,0,0,0,0,1,2")
    /\ out = Ok(IntervalVal(<<IntVal(TRUE, <<"1", "1">>),
                              IntVal(TRUE, <<"1", "1", "1", "0">>),
                              IntVal(FALSE, <<"0">>), IntVal(FALSE, <<"0">>),
                              IntVal(FALSE, <<"0">>), IntVal(FALSE, <<"0">>),
                              IntVal(FALSE, <<"0">>), IntVal(FALSE, <<"1">>),
                              IntVal(FALSE, <<"2">>)>>))

\* an adjust mode of 3 is refused with the error of a wrong number of parts
IntervalAdjustRefused ==
    /\ op = "Convert" /\ given = NilVal
    /\ input = Chars("1,2,3,4,5,6,7,8,3")
    /\ out = Ret(NilVal, errUnexpectedIntervalFmt)
    /\ Convert(converter, Chars("1,2,3")) = out
    /\ Convert(converter, <<>>) = out

\* C19: an interval of any int64 fields and an adjust mode of 0, 1 or 2,
\* converted by IntervalToStringConverter and back by
\* StringToIntervalConverter, is the same interval again, without error.
IntervalRoundTrip ==
    /\ (op = "ToString" /\ given.kind = "interval") => out.err = NoErr
    /\ (op = "Convert" /\ given.kind = "interval") =>
           out.err = NoErr /\ out.val = given

\* the limits of int64 come back
IntervalRoundTripReached ==
    /\ op = "Convert"
    /\ given = IntervalVal(<<IntVal(FALSE, MaxInt64), IntVal(FALSE, <<"0">>),
                             IntVal(FALSE, <<"0">>), IntVal(FALSE, <<"0">>),
                             IntVal(FALSE, <<"0">>), IntVal(FALSE, <<"0">>),
                             IntVal(FALSE, <<"0">>), IntVal(TRUE, MinInt64Abs),
                             IntVal(FALSE, <<"2">>)>>)
    /\ input = Chars("9223372036854775807,0,0,0,0,0,0,-9223372036854775808,2")
    /\ out = Ok(given)

----------------------------------------------------------------------------
(* Properties of the datetime converters, under SpecDatetime *)

\* the same time and the same zone: its name, or its offset if it has none
SameDatetime(a, b) ==
    /\ a.kind = "datetime" /\ b.kind = "datetime"
    /\ Instant(a.clock, a.offset) = Instant(b.clock, b.offset)
    /\ a.nsec = b.nsec
    /\ a.zone = b.zone
    /\ a.zone = NoTimezone => a.offset = b.offset

\* the offsets at which a zone shows a wall clock: two where the clock was
\* set back, none where it was set forward
OffsetsOfWall(zone, clock) ==
    {o \in {0, 3600, 7200, 10800} : lookup(zone, Instant(clock, o)).offset = o}

\* C20: a datetime converted by DatetimeToStringConverter and back by
\* StringToDatetimeConverter is, without error, the same time in the same
\* zone (its name, or its offset if the name is empty), also when its wall
\* clock occurs twice in its zone.
DatetimeRoundTrip ==
    /\ (op = "ToString" /\ given.kind = "datetime") => out.err = NoErr
    /\ (op = "Convert" /\ given.kind = "datetime") =>
           out.err = NoErr /\ SameDatetime(out.val, given)

\* 02:30 of 25 October 2020 in Europe/Paris at +02:00, 00:30 UTC, comes back
\* at +01:00, an hour later
DatetimeRoundTripShifted ==
    /\ op = "Convert"
    /\ given = DatetimeVal(Clock(2020, 10, 25, 2, 30, 0), Chars("000000000"),
                           Chars("Europe/Paris"), 7200)
    /\ input = Chars("2020-10-25T02:30:00 Europe/Paris")
    /\ out = Ok(DatetimeVal(Clock(2020, 10, 25, 2, 30, 0), Chars("000000000"),
                            Chars("Europe/Paris"), 3600))
    /\ Instant(given.clock, given.offset) = Instant(Clock(2020, 10, 25, 0, 30, 0), 0)
    /\ Instant(out.val.clock, out.val.offset) = Instant(Clock(2020, 10, 25, 1, 30, 0), 0)

\* what does hold: the round trip of a datetime of a fixed zone, and of a
\* named zone that shows the datetime's wall clock once
DatetimeRoundTripOfUnique ==
    (/\ op = "Convert" /\ given.kind = "datetime"
     /\ given.zone # NoTimezone => Cardinality(OffsetsOfWall(given.zone, given.clock)) = 1)
        => out.err = NoErr /\ SameDatetime(out.val, given)

\* a fixed zone of +05:30 comes back
DatetimeRoundTripOfFixed ==
    /\ op = "Convert"
    /\ given = DatetimeVal(Clock(2020, 8, 22, 11, 27, 43), Chars("123456789"),
                           NoTimezone, 19800)
    /\ input = Chars("2020-08-22T11:27:43.123456789+0530")
    /\ out = Ok(given)

\* a wall clock that the zone never shows is read as the time an hour later
\* shows: 02:30 of 29 March 2020 in Europe/Paris is 01:30 UTC
DatetimeOfSkippedWallClock ==
    /\ op = "Convert" /\ given = NilVal
    /\ input = Chars("2020-03-29T02:30:00 Europe/Paris")
    /\ OffsetsOfWall(Chars("Europe/Paris"), Clock(2020, 3, 29, 2, 30, 0)) = {}
    /\ out = Ok(DatetimeVal(Clock(2020, 3, 29, 3, 30, 0), Chars("000000000"),
                            Chars("Europe/Paris"), 7200))
    /\ Instant(out.val.clock, out.val.offset) = Instant(Clock(2020, 3, 29, 1, 30, 0), 0)

----------------------------------------------------------------------------
(* Properties of the list given to MakeMapper and MakeSequenceConverter,   *)
(* under SpecList                                                          *)

\* C21: after MakeMapper(converters) or MakeSequenceConverter(converters)
\* has returned, a call applies the converters the list held when it was
\* given, whatever the caller has assigned into the list since.
FixedAtCreation ==
    /\ op = "Map" => mapped = Map(MakeMapper(original), tpl)
    /\ op = "Convert" => out = Convert(MakeSequenceConverter(original), input)

\* a Mapper made of the converter returning 42: after the caller has put
\* the failing converter into the list, Map fails with its error
MapperFollowsList ==
    /\ op = "Map"
    /\ original = <<idealMapper>>
    /\ list = <<nonIdealMapper>>
    /\ mpr.converters = list
    /\ tpl = <<Chars("bad")>>
    /\ Map(MakeMapper(original), tpl).result = <<GoInt(42)>>
    /\ mapped.isNil /\ mapped.err = someError

----------------------------------------------------------------------------
(* Properties of concurrent calls of Map, under SpecConcurrent *)

\* what the call of caller c has stored so far is what Map alone stores
StoredAlone(c) ==
    \A j \in 1..(calls[c].i - 1) :
        calls[c].result[j] = Convert(ConverterAt(mpr, j), calls[c].tuple[j]).val

\* a step of one caller changes nothing of another caller's call
OwnCallOnly ==
    \A c \in Callers :
        calls'[c] # calls[c] => \A d \in Callers \ {c} : calls'[d] = calls[d]

\* C22: with several callers running Map on one Mapper in any interleaving,
\* each call returns what Map returns for its tuple when run alone, a step
\* of one call changes no other call's tuple, slice or result, and no step
\* of Map writes the Mapper or the factory.
ConcurrentMapIsolated ==
    /\ [](\A c \in Callers :
            /\ calls[c].pc = "done" => calls[c].returned = Map(mpr, calls[c].tuple)
            /\ calls[c].pc = "loop" => StoredAlone(c))
    /\ [][/\ OwnCallOnly
          /\ op = "MakeMapper" => mpr' = mpr /\ factory' = factory]_vars

\* caller a has returned [42, "1"] for ("null", "1") while caller b, on
\* ("1", "1", "1"), is at its third element
ConcurrentMapIsolatedReached ==
    /\ mpr = WithDefaultConverter(MakeMapper(<<idealMapper, partialSecond>>),
                                  partialDefault)
    /\ calls["a"].pc = "done"
    /\ calls["a"].tuple = <<Chars("null"), Chars("1")>>
    /\ calls["a"].returned.result = <<GoInt(42), StrVal(Chars("1"))>>
    /\ calls["b"].pc = "loop"
    /\ calls["b"].tuple = <<Chars("1"), Chars("1"), Chars("1")>>
    /\ calls["b"].i = 3
    /\ calls["b"].result = <<GoInt(42), StrVal(Chars("1")), NilVal>>

----------------------------------------------------------------------------
(* Properties of failure, under SpecMapper *)

\* C23: for every Mapper made by MakeMapper and WithDefaultConverter, a nil
\* converter among the arguments included, and every tuple, Map returns a
\* result or an error: no call ends in a panic.
MapNeverAborts == op = "Map" => ~Panicked(mapped)

\* Map on ("1") with the nil converter at the first position panics
MapAbortsOnNilConverter ==
    /\ op = "Map"
    /\ mpr = MakeMapper(<<NilConverter>>)
    /\ tpl = <<Chars("1")>>
    /\ validateTuple(mpr, tpl) = NoErr
    /\ Panicked(mapped)

\* so does Map on ("1", "1") with the nil converter as default converter:
\* the pointer WithDefaultConverter stores is not nil, the converter is
MapAbortsOnNilDefault ==
    /\ op = "Map"
    /\ mpr = WithDefaultConverter(MakeMapper(<<idealMapper>>), NilConverter)
    /\ ~mpr.defaultConverter.isNil
    /\ tpl = <<Chars("1"), Chars("1")>>
    /\ Panicked(mapped)

----------------------------------------------------------------------------
(* Properties of the array and map converters, under Spec *)

\* the kind of the JSON value a text starts with, by its first character
\* after the leading space
FirstChar(s) == At(s, SkipSpace(s, 1))
KindByFirstChar(s) ==
    CASE FirstChar(s) = "[" -> "slice"
      [] FirstChar(s) = "{" -> "map"
      [] FirstChar(s) = "\"" -> "string"
      [] FirstChar(s) \in {"t", "f"} -> "bool"
      [] FirstChar(s) = "n" -> "nil"
      [] OTHER -> "float64"

\* texts of the inputs that are one JSON value, and texts that are not
WellFormedJSON == {
    Chars("[1, 2, 3, 4]"), Chars("[1, {\"a\" : [2,3]}]"),
    Chars("{\"a\":2, \"b\":3, \"c\":{ \"d\":\"str\" }}"),
    Chars("null"), Chars("true"), Chars("false"),
    Chars("0"), Chars("1"), Chars("10"), Chars("-1"), Chars("-0"),
    Chars("1e2"), Chars("1.5"), Chars("1.0"), Chars("1.447e+44"), Chars("1e-2"),
    Chars(" 1 ")}
MalformedJSON == {
    <<>>, Chars("[1,2,3,"), Chars("{1:\"2e5\"}"), Chars("hello"), Chars("t"),
    Chars("truth"), Chars("007"), Chars("01"), Chars("+1"), Chars("-.5"),
    Chars("1."), Chars("1,5"), Chars("1e"), Chars("nan"), Chars("inf"),
    Chars("-"), Chars("1'000"), Chars("2020-08-22")}

JSONConverted == Converted(TypeArray) \/ Converted(TypeMap)

MapConverterOfArray ==
    /\ Converted(TypeMap)
    /\ input = Chars("[1, 2, 3, 4]")
    /\ out.err = NoErr
    /\ out.val.kind = "slice"
    /\ Len(out.val.elems) = 4

\* the map converter returns nil and no error for null, as the array
\* converter does in the tests
MapConverterOfNull ==
    /\ Converted(TypeMap)
    /\ input = Chars("null")
    /\ out = Ok(NilVal)

----------------------------------------------------------------------------
(* Properties of the grammar of StringToDatetimeConverter, under           *)
(* SpecDatetime                                                            *)

DatetimeParsed == op = "Convert" /\ converter = MakeStringToDatetimeConverter

FirstSpace == IndexAny(input, {" "})
DatePart == IF FirstSpace = 0 THEN SubSeq(input, 1, Len(input) - 5)
            ELSE SubSeq(input, 1, FirstSpace - 1)
OffsetPart == SubSeq(input, Len(input) - 4, Len(input))
ZonePart == SubSeq(input, FirstSpace + 1, Len(input))

NumberAt(s, i, n) == DigitsToNat(SubSeq(s, i, i + n - 1), 0, 100000)
DigitsAt(s, i, n) == i + n - 1 <= Len(s) /\ IsDigits(SubSeq(s, i, i + n - 1))

\* the wall clock a text YYYY-MM-DDTh:mm:ss writes, its hour in hlen digits
ClockOfText(s, hlen) ==
    Clock(NumberAt(s, 1, 4), NumberAt(s, 6, 2), NumberAt(s, 9, 2),
          NumberAt(s, 12, hlen), NumberAt(s, 13 + hlen, 2), NumberAt(s, 16 + hlen, 2))

\* the nine digits of the fraction the text writes after its seconds
FractionOfText(s, hlen) == PadTo(SubSeq(s, 19 + hlen, Len(s)), 9)

\* s is a date and time of a calendar day, its hour in hlen digits, with an
\* optional fraction of one or more digits after one of the openers
IsClockText(s, hlen, openers) ==
    /\ DigitsAt(s, 1, 4) /\ At(s, 5) = "-" /\ DigitsAt(s, 6, 2) /\ At(s, 8) = "-"
    /\ DigitsAt(s, 9, 2) /\ At(s, 11) = "T" /\ DigitsAt(s, 12, hlen)
    /\ At(s, 12 + hlen) = ":" /\ DigitsAt(s, 13 + hlen, 2)
    /\ At(s, 15 + hlen) = ":" /\ DigitsAt(s, 16 + hlen, 2)
    /\ \/ Len(s) = 17 + hlen
       \/ /\ At(s, 18 + hlen) \in openers
          /\ Len(s) >= 19 + hlen
          /\ IsDigits(SubSeq(s, 19 + hlen, Len(s)))
    /\ ClockOfText(s, hlen).month \in 1..12
    /\ ClockOfText(s, hlen).day \in 1..DaysIn(ClockOfText(s, hlen).month,
                                               ClockOfText(s, hlen).year)
    /\ ClockOfText(s, hlen).hour < 24
    /\ ClockOfText(s, hlen).min < 60
    /\ ClockOfText(s, hlen).sec < 60

IsOffsetText(z) == Len(z) = 5 /\ z[1] \in {"+", "-"} /\ IsDigits(Tail(z))
OffsetOfText(z) ==
    (IF z[1] = "-" THEN 0 - 1 ELSE 1) * (NumberAt(z, 2, 2) * 60 + NumberAt(z, 4, 2)) * 60

\* every offset a zone has at some time
OffsetsOfZone(zone) ==
    {ZoneTable(zone).first} \cup
        {ZoneTable(zone).tx[k].offset : k \in 1..Len(ZoneTable(zone).tx)}

\* the value is the wall clock read in the zone: the clock and an offset at
\* which the zone shows it or, for a clock the zone never shows, the time
\* one of the zone's offsets gives it
ReadInZone(val, zone, clock) ==
    IF OffsetsOfWall(zone, clock) # {}
    THEN val.clock = clock /\ val.offset \in OffsetsOfWall(zone, clock)
    ELSE \E o \in OffsetsOfZone(zone) :
            Instant(val.clock, val.offset) = Instant(clock, o)

\* a successful conversion under a grammar of the date and time
ParsedBy(hlens, openers) ==
    \E hlen \in hlens :
        /\ IsClockText(DatePart, hlen, openers)
        /\ out.val.kind = "datetime"
        /\ out.val.nsec = FractionOfText(DatePart, hlen)
        /\ IF FirstSpace = 0
           THEN /\ IsOffsetText(OffsetPart)
                /\ out.val.zone = NoTimezone
                /\ out.val.offset = OffsetOfText(OffsetPart)
                /\ out.val.clock = ClockOfText(DatePart, hlen)
           ELSE /\ ZonePart \in ZoneNames
                /\ out.val.zone = (IF ZonePart = <<>> THEN Chars("UTC") ELSE ZonePart)
                /\ ReadInZone(out.val, ZonePart, ClockOfText(DatePart, hlen))

\* inputs the claim lists as errors: an unknown zone name, a date with a
\* zone, an offset written with a colon, an offset followed by a zone
RefusedDatetimes == {
    Chars("2020-08-22T11:27:43 Nowhere"), Chars("2020-08-22 Europe/Moscow"),
    Chars("2020-08-22T11:27:43.123456789-02:00"),
    Chars("2020-08-22T11:27:43+0300 Europe/Moscow"),
    Chars("2020-08-22T11:27:43 Europe/Moscow UTC"), Chars("2023-08-30 11:11:00"),
    Chars("2020-08-22"), Chars("2020-08-22T11:27:43Z"),
    Chars("2020-13-22T11:27:43+0300"), Chars("2021-02-29T00:00:00 UTC"),
    Chars("2020-08-22T24:00:00+0000"), Chars("2020-08-22T11:27:43.+0300")}

DatetimeOfShortHour ==
    /\ DatetimeParsed
    /\ input = Chars("2020-08-22T1:27:43+0300")
    /\ out = Ok(DatetimeVal(Clock(2020, 8, 22, 1, 27, 43), Chars("000000000"),
                            NoTimezone, 10800))

\* a fraction after a comma is read
DatetimeOfCommaFraction ==
    /\ DatetimeParsed
    /\ input = Chars("2020-08-22T11:27:43,5+0300")
    /\ out = Ok(DatetimeVal(Clock(2020, 8, 22, 11, 27, 43), Chars("500000000"),
                            NoTimezone, 10800))

----------------------------------------------------------------------------
(* Properties of the order of Map's calls, under SpecConcurrent *)

\* the positions 1..n in increasing order
UpTo(n) == [j \in 1..n |-> j]

\* what holds of the positions a call has invoked so far
InvokedInOrder(c) ==
    /\ calls[c].invoked = UpTo(Len(calls[c].invoked))
    /\ Len(calls[c].invoked) <= Len(calls[c].tuple)
    /\ calls[c].invoked # <<>> => validateTuple(mpr, calls[c].tuple) = NoErr
    /\ \A j \in 1..(Len(calls[c].invoked) - 1) :
        Convert(ConverterAt(mpr, j), calls[c].tuple[j]).err = NoErr
    /\ (calls[c].pc = "done" /\ calls[c].returned.err = ErrTupleLength)
        => calls[c].invoked = <<>>
    /\ (calls[c].pc = "done" /\ calls[c].returned.err = NoErr)
        => calls[c].invoked = UpTo(Len(calls[c].tuple))

\* a converter is invoked in the loop only, at the position after the last
InvokesNext(c) ==
    calls'[c].invoked # calls[c].invoked =>
        /\ calls[c].pc = "loop"
        /\ calls'[c].invoked = Append(calls[c].invoked, Len(calls[c].invoked) + 1)

\* C26: Map invokes the converters in increasing position order, each at
\* most once, position i only after the length validation has passed and
\* every position before i has converted without error: none is invoked
\* when the length error is returned, none after the first failing
\* position, none at a position from len(tuple) on.
MapInvokesInOrder ==
    /\ [](\A c \in Callers : InvokedInOrder(c))
    /\ [][\A c \in Callers : InvokesNext(c)]_vars

\* the first of two converters has failed: the second was not invoked
MapInvokesInOrderReached ==
    /\ mpr = MakeMapper(<<nonIdealMapper, idealMapper>>)
    /\ calls["a"].pc = "done"
    /\ calls["a"].tuple = <<Chars("bad"), Chars("1")>>
    /\ calls["a"].invoked = <<1>>
    /\ calls["a"].returned.err = someError
    /\ calls["b"].pc = "done"
    /\ calls["b"].tuple = <<Chars("1"), Chars("1"), Chars("1")>>
    /\ calls["b"].invoked = <<>>
    /\ calls["b"].returned.err = ErrTupleLength

----------------------------------------------------------------------------
(* Properties of the nullable converters away from the null value, under   *)
(* Spec                                                                    *)

NullableConverted == op = "Convert" /\ IsStringFactory /\ isNullable

\* C27: for an input other than the null value, the nullable converter of C
\* returns C's value when C succeeds and fails when C fails; the null value
\* is matched exactly, so with the null value "null" the empty input is an
\* error for nullable boolean, integer, double, uuid, map and interval, the
\* empty string for nullable string and no bytes for nullable varbinary.
NullableTransparent ==
    NullableConverted =>
        /\ input # factory.nullValue =>
            /\ Convert(got.conv, input).err = NoErr =>
                (out.err = NoErr /\ out.val = Convert(got.conv, input).val)
            /\ Convert(got.conv, input).err # NoErr => out.err # NoErr
        /\ (factory.nullValue = Chars("null") /\ input = <<>>) =>
            /\ typeName \in {TypeBoolean, TypeInteger, TypeDouble, TypeUUID,
                             TypeMap, TypeInterval} => out.err # NoErr
            /\ typeName = TypeString => (out.err = NoErr /\ out.val = StrVal(<<>>))
            /\ typeName = TypeVarbinary => (out.err = NoErr /\ out.val = BytesVal(<<>>))

\* with the null value "1" the nullable string converter returns " 1 " as
\* it is, and the nullable unsigned converter with the separator ' returns
\* the number 1 for "1'"
NullableTransparentReached ==
    /\ NullableConverted
    /\ factory.nullValue = Chars("1")
    /\ typeName = TypeString
    /\ input = Chars(" 1 ")
    /\ out.err = NoErr /\ out.val = StrVal(Chars(" 1 "))
    /\ Convert(MakeNullableConverter(WithThousandSeparators(factory, Chars("'")),
                                     MakeStringToUIntConverter(Chars("'"))),
               Chars("1'")).val = UintVal(<<"1">>)

\* with the null value "null" the empty input fails for nullable uuid
NullableEmptyRefused ==
    /\ NullableConverted
    /\ factory.nullValue = Chars("null")
    /\ typeName = TypeUUID
    /\ input = <<>>
    /\ out.err # NoErr /\ out.val = NilVal

----------------------------------------------------------------------------
(* Properties of text without digits, under Spec *)

HasDigit(s) == \E i \in 1..Len(s) : s[i] \in DigitChars

NumberKinds == {"uint64", "int64", "float64", "decimal"}

\* the names of the infinities and of NaN that strconv.ParseFloat reads
IsFloatName(s) ==
    \/ LowerStr(Unsigned(s)) \in {Chars("inf"), Chars("infinity")}
    \/ LowerStr(s) = Chars("nan")

\* C28 as stated: the double converter, and so the number converter, fails
\* on every input without a decimal digit after stripping and folding, and
\* any and scalar return no number for it.
DigitFreeRefused ==
    (op = "Convert" /\ IsStringFactory /\ ~HasDigit(Folded)) =>
        /\ (Converted(TypeDouble) \/ Converted(TypeNumber)) => out.err # NoErr
        /\ (Converted(TypeAny) \/ Converted(TypeScalar)) =>
            out.val.kind \notin NumberKinds

\* C28 as amended: the same for every such input but the names of the
\* infinities and of NaN (inf, infinity, with a sign or none, and nan, in
\* letters of either case): for these the double, number, any and scalar
\* converters return the float64 infinity or NaN.
DigitFreeRefusedButNames ==
    (op = "Convert" /\ IsStringFactory /\ ~HasDigit(Folded)) =>
        /\ ~IsFloatName(Folded) =>
            /\ (Converted(TypeDouble) \/ Converted(TypeNumber)) => out.err # NoErr
            /\ (Converted(TypeAny) \/ Converted(TypeScalar)) =>
                out.val.kind \notin NumberKinds
        /\ (/\ IsFloatName(Folded)
            /\ \/ Converted(TypeDouble) \/ Converted(TypeNumber)
               \/ Converted(TypeAny) \/ Converted(TypeScalar)) =>
            /\ out.err = NoErr
            /\ out.val.kind = "float64"
            /\ out.val.form \in {"inf", "nan"}

\* "notnumberatall" is refused by the number converter
DigitFreeRefusedButNamesReached ==
    /\ Converted(TypeNumber)
    /\ input = Chars("notnumberatall")
    /\ out.err # NoErr /\ out.val = NilVal
    /\ Convert(GetConverterByType(factory, TypeAny).conv, input).val = StrVal(input)
    /\ Failed(Convert(GetConverterByType(factory, TypeDouble).conv, Chars("-.e")))

\* any turns "inf" into the float64 +Inf
AnyOfInf ==
    /\ Converted(TypeAny)
    /\ input = Chars("inf")
    /\ out.err = NoErr
    /\ out.val = FloatVal("inf", FALSE, <<"0">>, 0)

\* the double converter turns "nan" into NaN
DoubleOfNaN ==
    /\ Converted(TypeDouble)
    /\ input = Chars("nan")
    /\ out.err = NoErr
    /\ out.val.form = "nan"

----------------------------------------------------------------------------
(* Properties of the order of the two replacements, under SpecFolding *)

Fractional ==
    /\ op = "Convert"
    /\ IsStringFactory
    /\ typeName \in {TypeDouble, TypeDecimal}
    /\ ~isNullable

\* what the parser of the converter in use makes of a text
Parsed(s) == IF typeName = TypeDouble THEN ParseFloat(s) ELSE NewDecimalFromString(s)

\* the text the converter in use hands to its parser
ParsedText == replaced(input, converter.ignoreChars, converter.decSeparators)

Without(s, c) == SelectSeq(s, LAMBDA x : x # c)

\* the thousand separators are removed from the whole input, the decimal
\* separators left are then written '.', and the parser reads the outcome;
\* a character of both sets is removed
StripThenFold ==
    /\ ParsedText = Folded
    /\ out = Parsed(Folded)
    /\ \A c \in Range(factory.thousandSeparators) \cap Range(factory.decimalSeparators) :
        /\ out = Convert(converter, Without(input, c))
        /\ c # "." => \A i \in 1..Len(ParsedText) : ParsedText[i] # c

\* C29 as stated: in the float and decimal converters the thousand
\* separators are stripped from the whole input before the decimal
\* separators are folded, both before parsing; a character of both sets is
\* removed and never folded to '.', and the parsed text contains no
\* thousand-separator character and no decimal-separator character other
\* than '.'.
FoldingAfterStripping ==
    Fractional =>
        /\ StripThenFold
        /\ \A i \in 1..Len(ParsedText) :
            /\ ParsedText[i] \notin Range(factory.thousandSeparators)
            /\ ParsedText[i] \in Range(factory.decimalSeparators) => ParsedText[i] = "."

\* C29 as amended: the same, but the parsed text contains no character of
\* either set other than '.', and a '.' of either set in it stands where
\* the input had a decimal separator that is not a thousand separator (so
\* a '.' configured as thousand separator is in the parsed text when
\* another decimal separator was folded).
FoldingAfterStrippingButPoint ==
    Fractional =>
        /\ StripThenFold
        /\ \A i \in 1..Len(ParsedText) :
            ParsedText[i] \in Range(factory.thousandSeparators)
                             \cup Range(factory.decimalSeparators) =>
                /\ ParsedText[i] = "."
                /\ Stripped[i] \in Range(factory.decimalSeparators)
                /\ Stripped[i] \notin Range(factory.thousandSeparators)

\* ' is of both sets and , a decimal separator: "12'5" is 125 for the
\* decimal converter, and "1'2,5" is 12.5
FoldingAfterStrippingButPointReached ==
    /\ Fractional
    /\ typeName = TypeDecimal
    /\ factory.thousandSeparators = <<"'">>
    /\ factory.decimalSeparators = <<",", "'">>
    /\ input = Chars("12'5")
    /\ out.err = NoErr
    /\ out = Convert(converter, Chars("125"))
    /\ Convert(converter, Chars("1'2,5")) = Convert(converter, Chars("12.5"))

\* '.' is a thousand separator and , a decimal separator: "12,5" is parsed
\* as "12.5"
PointOfBothKinds ==
    /\ Fractional
    /\ typeName = TypeDouble
    /\ factory.thousandSeparators = <<".">>
    /\ factory.decimalSeparators = <<",">>
    /\ input = Chars("12,5")
    /\ ParsedText = Chars("12.5")
    /\ out = TwelveAndAHalf
    /\ Convert(converter, Chars("1.2,5")) = TwelveAndAHalf

----------------------------------------------------------------------------
(* Properties of the With* methods, under SpecKept *)

FactoryOptions == {"thousandSeparators", "decimalSeparators", "nullValue"}

\* the converter GetConverterByType and MakeNullableConverter give for the
\* options of fac
ConverterUnder(fac) ==
    IF isNullable
    THEN MakeNullableConverter(fac, GetConverterByType(fac, typeName).conv)
    ELSE GetConverterByType(fac, typeName).conv

\* after m2 := m.WithDefaultConverter(d): m is as it was, m2 has m's list
\* and d as default converter, and Map on each does what its own
\* configuration asks for
MapperReceiverKept ==
    withCall.of = "mapper" =>
        /\ mpr = withCall.before
        /\ withCall.returned.converters = mpr.converters
        /\ withCall.returned.defaultConverter = PointerTo(withCall.value)
        /\ (op = "Map" /\ withCall.mappedBy = "m") =>
            /\ mapped = Map(withCall.before, tpl)
            /\ (withCall.before.defaultConverter.isNil
                    /\ Len(tpl) > Len(withCall.before.converters)) =>
                /\ mapped.err = ErrTupleLength
                /\ mapped.isNil
        /\ (op = "Map" /\ withCall.mappedBy = "m2") =>
            mapped.err # ErrTupleLength

\* after f2 := f.With...(x): f is as it was, f2 has x for the option set
\* and f's values for the others, and the converters of f, got before the
\* call or after it, are made with f's values
FactoryReceiverKept ==
    withCall.of = "factory" =>
        /\ factory = withCall.before
        /\ withCall.returned[withCall.option] = withCall.value
        /\ \A o \in FactoryOptions \ {withCall.option} :
            withCall.returned[o] = withCall.before[o]
        /\ withCall.returned.type = withCall.before.type
        /\ got # NoGot =>
            /\ converter = ConverterUnder(withCall.before)
            /\ op = "Convert" => out = Convert(ConverterUnder(withCall.before), input)

\* C30: the With* operations return a modified copy and leave their
\* receiver unchanged: after m2 = m.WithDefaultConverter(d), m has the
\* default converter it had (with none, it still fails on tuples longer
\* than its list) and m2 has the same converter list as m; after
\* f2 = f.WithNullValue / WithThousandSeparators / WithDecimalSeparators(x),
\* f keeps its option values, f2 differs from f only in the option set, and
\* converters obtained from f before or after the call use f's values.
WithReturnsCopy == MapperReceiverKept /\ FactoryReceiverKept

\* m maps with <<idealMapper>> and no default converter, m2 has
\* nonIdealMapper as default: m refuses a tuple of two fields
WithReturnsCopyReached ==
    /\ withCall.of = "mapper"
    /\ withCall.before = MakeMapper(<<idealMapper>>)
    /\ withCall.value = nonIdealMapper
    /\ op = "Map"
    /\ withCall.mappedBy = "m"
    /\ tpl = <<Chars("1"), Chars("bad")>>
    /\ mapped.err = ErrTupleLength
    /\ Map(withCall.returned, tpl).err = Error("some error", <<>>)

\* f has the thousand separator ' and f2 none: the unsigned converter of f
\* reads "1'5" as 15, the one of f2 refuses it
FactoryKeepsSeparators ==
    /\ withCall.of = "factory"
    /\ withCall.option = "thousandSeparators"
    /\ factory.thousandSeparators = Chars("'")
    /\ withCall.value # Chars("'")
    /\ typeName = TypeUnsigned /\ ~isNullable
    /\ op = "Convert"
    /\ input = Chars("1'5")
    /\ out.val = UintVal(<<"1", "5">>)
    /\ Failed(Convert(GetConverterByType(withCall.returned, TypeUnsigned).conv, input))

\* f has the null value "" and f2 "null": the nullable converter of f
\* fails on "null"
FactoryKeepsNullValue ==
    /\ withCall.of = "factory"
    /\ withCall.option = "nullValue"
    /\ factory.nullValue = <<>>
    /\ withCall.value = Chars("null")
    /\ isNullable
    /\ op = "Convert"
    /\ input = Chars("null")
    /\ out.err # NoErr
    /\ Convert(MakeNullableConverter(withCall.returned, got.conv), input).val = NilVal
    /\ Convert(MakeNullableConverter(withCall.returned, got.conv), input).err = NoErr

====
